---------------------------- MODULE Spec2Model ----------------------------
(***************************************************************************)
(* SensorApp: the transport abstraction (TcpSocket / UdpSocket behind      *)
(* ITransport), the TransportFactory, and the Sensor acquisition loop.     *)
(*                                                                         *)
(* Strings whose characters matter (the transport kind, the host) are      *)
(* sequences of one-character strings; payloads are sequences of bytes.    *)
(***************************************************************************)
EXTENDS Integers, Sequences, FiniteSets, TLC

VARIABLES
    \* ---- TransportFactory::make, one call ----
    cfg,        \* the TransportConfig handed to make: [kind, host, port]
    made,       \* what make produced: nothing yet, an ITransport, or an exception
    \* ---- socket objects (TcpSocket / UdpSocket) ----
    host_,      \* host_ of each socket object
    fd_,        \* fd_ of each socket object, -1 = not connected
    \* ---- the operating system ----
    osOpen,     \* descriptors currently open
    peerGone,   \* open descriptors whose link is broken (peer closed / unreachable)
    badClose,   \* TRUE once ::close was called on a descriptor that is not open
    life,       \* history of each socket object: fresh, failed, open, closed or moved
    alive,      \* the socket objects that exist (constructed and not yet destroyed)
    \* ---- the call in progress or last finished on a socket ----
    call,       \* [op, obj, status, err, ret]
    trace,      \* OS calls made by the last connect() or close(), in order
    resolved,   \* what getaddrinfo returned to the last connect()
    sData,      \* send: the caller's buffer
    sPtr,       \* send: dataPtr, as an offset into the buffer
    sLeft,      \* send: bytesLeft (stream) / len (datagram)
    sAccepted,  \* send: what the OS accepted during this send, in order
    sCalls,     \* send: number of ::send calls issued by this send
    sEintr,     \* send: number of those that were interrupted (EINTR)
    sLast,      \* send: what the most recent ::send call returned
    \* ---- Sensor (the acquisition loop) ----
    config_,    \* the Sensor's copy of its SensorConfig
    sensorId_,  \* the Sensor's sensorId_
    intervalSeconds_,   \* the Sensor's intervalSeconds_
    tx,         \* the socket object behind the Sensor's transport_
    running,    \* the std::atomic<bool> handed to run
    lpc,        \* where the thread inside the Sensor is
    inRun,      \* TRUE while run() is on the stack
    loopRes,    \* [op, status, err] of the last finished Sensor operation
    values,     \* runOnce: the ReadingSet read in this tick
    payload,    \* runOnce: the payload built in this tick
    steps,      \* runOnce: the calls this tick has made so far, in order
    rChecks,    \* run: evaluations of while (running) in this run
    rOnce,      \* run: runOnce calls started by this run
    rSleeps,    \* run: sleeps completed in this run
    rSlept,     \* run: seconds slept in this run
    rSends,     \* run: sendString calls made in this run
    rSent,      \* run: sendString calls that returned normally in this run
    firstSaw,   \* run: what the first evaluation of while (running) saw
    lateOnce,   \* run: runOnce calls started with the flag already cleared
    lateSleeps, \* run: sleeps that ended with the flag already cleared
    closedOnce, \* TRUE once Sensor::close has been called
    \* ---- history kept for the properties ----
    reopened,   \* socket objects whose present connection was made after a close()
    dgrams,     \* the datagrams the OS took from UdpSocket::send, as [id, bytes]
    done,       \* the datagram sends that returned normally, as [id, data, ret]
    nCalls,     \* number of datagram sends started
    \* ---- HardwareDataSource and its camera ----
    camera_,    \* the ICamera the data source holds: "null", "mock" or "device"
    opened_,    \* ICamera::isOpened()
    index_,     \* MockCamera::index_: the next frame to hand out
    hwCtor,     \* the camera as the data source's constructor found it:
                \* "opened" or "unopened", "none" before the constructor ran
    released,   \* release() was called after the data source was constructed
    hwReads,    \* number of readAll calls made on the data source
    grabbed,    \* what the last grabFrame gave: [ok, frame]
    \* ---- main(): the supervisor thread around the Sensor's thread ----
    spc,        \* where the main thread is
    runDuration,    \* RUN_DURATION_SECONDS as read by envOrDefaultInt
    elapsed,    \* steady_clock::now() - startTime, in whole seconds
    stops,      \* who has stored false into the flag: "limit", "signal", "worker"
    sensorJson, \* the JSON document in the sensor configuration file
    transportJson,  \* the JSON document in the transport configuration file
    sensorCfg   \* main's sensorCfg, as returned by loadSensorConfig

factoryVars == <<cfg, made>>
sockVars    == <<host_, fd_, osOpen, peerGone, badClose, life>>
sendVars    == <<sData, sPtr, sLeft, sAccepted, sCalls, sEintr, sLast>>
callVars    == <<call, trace, resolved>>
cfgVars     == <<config_, sensorId_, intervalSeconds_, tx>>
runVars     == <<rChecks, rOnce, rSleeps, rSlept, rSends, rSent, firstSaw,
                 lateOnce, lateSleeps>>
loopVars    == <<cfgVars, running, lpc, inRun, loopRes, values, payload, steps,
                 runVars, closedOnce>>
camVars     == <<camera_, opened_, index_, hwCtor, released, hwReads, grabbed>>
histVars    == <<dgrams, done, nCalls, camVars>>
mainVars    == <<spc, runDuration, elapsed, stops, sensorJson, transportJson, sensorCfg>>
vars == <<factoryVars, alive, sockVars, callVars, sendVars, loopVars, reopened,
          histVars, mainVars>>

----------------------------------------------------------------------------
(* Bounds of the model *)

\* longest payload handed to send, in bytes
MaxLen == 3
\* most interruptions (EINTR) of one send
MaxEintr == 2
\* most address candidates getaddrinfo returns
MaxCand == 2
\* most ticks of one run
MaxTicks == 2

----------------------------------------------------------------------------
(* Strings *)

\* std::tolower on the characters the model uses
tolower(ch) ==
    CASE ch = "T" -> "t"
      [] ch = "C" -> "c"
      [] ch = "P" -> "p"
      [] ch = "U" -> "u"
      [] ch = "D" -> "d"
      [] OTHER -> ch

\* a comparison that forgets the case folding
equalsExact(aStr, bStr) == aStr = bStr

\* StringUtils::iequals: std::equal over both ranges with a tolower comparison
iequals(aStr, bStr) ==
    /\ Len(aStr) = Len(bStr)
    /\ \A i \in 1..Len(aStr) : tolower(aStr[i]) = tolower(bStr[i])

empty(s) == Len(s) = 0

----------------------------------------------------------------------------
(* Ports *)

\* NetworkConstants::MinPort, NetworkConstants::MaxPort
MinPort == 0
MaxPort == 65535

isValidPortRange(port) == port > MinPort /\ port <= MaxPort

----------------------------------------------------------------------------
(* TransportFactory::make *)

\* conversion of the int32_t cfg.port to the uint16_t constructor parameter
ToU16(p) == p % 65536

NewTransport(type, h, p) ==
    [status |-> "ok", type |-> type, host |-> h, port |-> ToU16(p), fd |-> -1, err |-> "none"]

FactoryError(msg) ==
    [status |-> "error", type |-> "none", host |-> <<>>, port |-> 0, fd |-> -1, err |-> msg]

make(c) ==
    IF empty(c.kind) THEN FactoryError("TransportFactory: empty 'kind'")
    ELSE IF empty(c.host) THEN FactoryError("TransportFactory: empty host")
    ELSE IF iequals(c.kind, <<"t", "c", "p">>) THEN NewTransport("TcpTransport", c.host, c.port)
    ELSE IF iequals(c.kind, <<"u", "d", "p">>) THEN NewTransport("UdpTransport", c.host, c.port)
    ELSE FactoryError("TransportFactory: unsupported kind")

----------------------------------------------------------------------------
(* Socket objects and the operating system *)

\* one TcpSocket and one UdpSocket
Objs == {"t1", "u1"}
\* with a second object of each class, for moves between objects
MoveObjs == {"t1", "t2", "u1", "u2"}
isTcp(o) == o \in {"t1", "t2"}

Hosts == {<<>>, <<"h">>}

\* all sequences over S of length at most n
SeqsUpTo(S, n) == UNION {[1..k -> S] : k \in 0..n}

\* The buffers handed to send: one of each length, every byte different, so
\* that a byte lost, repeated or out of order shows (send never reads them).
Payloads == {[i \in 1..k |-> i] : k \in 0..MaxLen}

\* the lowest descriptor that is not open, as socket() returns it
NewFd ==
    CHOOSE n \in 0..Cardinality(osOpen) :
        n \notin osOpen /\ \A m \in 0..(n - 1) : m \in osOpen

\* outcomes of one address candidate: socket() fails, ::connect fails, or both succeed
CandOutcomes ==
    { [r |-> "ok", e |-> "none"],
      [r |-> "sockfail", e |-> "EMFILE"],
      [r |-> "connfail", e |-> "ECONNREFUSED"],
      [r |-> "connfail", e |-> "ETIMEDOUT"] }

\* outcomes of getaddrinfo: an error, or a non-empty list of candidates
Resolutions ==
    { [gai |-> "EAI_NONAME", cands |-> <<>>] } \cup
    { [gai |-> "ok", cands |-> c] : c \in (SeqsUpTo(CandOutcomes, MaxCand) \ {<<>>}) }

Returned(op, o, ret) ==
    [op |-> op, obj |-> o, status |-> "returned", what |-> "none", errno |-> "none", ret |-> ret]
Raised(op, o, what, errno) ==
    [op |-> op, obj |-> o, status |-> "raised", what |-> what, errno |-> errno, ret |-> -1]
Running(op, o) ==
    [op |-> op, obj |-> o, status |-> "running", what |-> "none", errno |-> "none", ret |-> -1]

\* systemErr(where): runtime_error(where + ": " + strerror(errno)); names holds
\* the members of the socket whose values are spliced into the text
systemErr(where, errno) == [text |-> where, names |-> {}, detail |-> errno]

\* the text of the exception a socket call raised
ErrorText(c) ==
    IF c.what = "getaddrinfo"
    THEN [text |-> "getaddrinfo", names |-> {"host_", "port_"}, detail |-> c.errno]
    ELSE systemErr(c.what, c.errno)

OsCall(c, i, f) == [c |-> c, i |-> i, fd |-> f]

\* no getaddrinfo call was made
NoResolution == [gai |-> "none", cands |-> <<>>]

\* an isConnected() that takes descriptor 0 for "unset"
isConnectedPositive(o) == fd_[o] > 0

\* isConnected(): fd_ >= 0
isConnected(o) == fd_[o] >= 0

\* a candidate loop that goes on after a success and keeps the last one
RECURSIVE WalkLastWins(_, _, _, _, _)
WalkLastWins(cands, i, sock, lastErrno, tr) ==
    IF i > Len(cands)
    THEN [fd |-> -1, lastErrno |-> lastErrno, tr |-> tr]
    ELSE IF cands[i].r = "sockfail"
    THEN WalkLastWins(cands, i + 1, sock, cands[i].e, Append(tr, OsCall("socket", i, -1)))
    ELSE IF cands[i].r = "ok" /\ \A j \in (i + 1)..Len(cands) : cands[j].r # "ok"
    THEN [fd |-> sock, lastErrno |-> lastErrno,
          tr |-> tr \o <<OsCall("socket", i, sock), OsCall("connect", i, sock)>>]
    ELSE WalkLastWins(cands, i + 1, sock, cands[i].e,
                      tr \o <<OsCall("socket", i, sock), OsCall("connect", i, sock),
                              OsCall("close", i, sock)>>)

\* The candidate loop of connect(): walks cands from index i on; sock is the
\* descriptor socket() hands out (every failed candidate's socket is closed
\* before the next socket() call, so it is the same lowest free descriptor).
RECURSIVE Walk(_, _, _, _, _)
Walk(cands, i, sock, lastErrno, tr) ==
    IF i > Len(cands)
    THEN [fd |-> -1, lastErrno |-> lastErrno, tr |-> tr]
    ELSE IF cands[i].r = "sockfail"
    THEN Walk(cands, i + 1, sock, cands[i].e, Append(tr, OsCall("socket", i, -1)))
    ELSE IF cands[i].r = "ok"
    THEN [fd |-> sock, lastErrno |-> lastErrno,
          tr |-> tr \o <<OsCall("socket", i, sock), OsCall("connect", i, sock)>>]
    ELSE Walk(cands, i + 1, sock, cands[i].e,
              tr \o <<OsCall("socket", i, sock), OsCall("connect", i, sock),
                      OsCall("close", i, sock)>>)

\* a connect that resolves and connects again although it holds a descriptor
connectNoGuard(o, res) ==
    IF res.gai # "ok"
    THEN /\ call' = Raised("connect", o, "getaddrinfo", res.gai)
         /\ trace' = <<OsCall("getaddrinfo", 0, -1)>>
         /\ resolved' = res
         /\ UNCHANGED sockVars
    ELSE LET w == Walk(res.cands, 1, NewFd, "none", <<OsCall("getaddrinfo", 0, -1)>>) IN
         /\ trace' = w.tr
         /\ resolved' = res
         /\ IF w.fd >= 0
            THEN /\ fd_' = [fd_ EXCEPT ![o] = w.fd]
                 /\ osOpen' = osOpen \cup {w.fd}
                 /\ life' = [life EXCEPT ![o] = "open"]
                 /\ call' = Returned("connect", o, 0)
            ELSE /\ UNCHANGED <<fd_, osOpen, life>>
                 /\ call' = Raised("connect", o, "connect", w.lastErrno)
         /\ UNCHANGED <<host_, peerGone, badClose>>

\* TcpSocket::connect / UdpSocket::connect, with the resolution and the
\* candidates' outcomes as input
connect(o, res) ==
    IF isConnected(o)
    THEN /\ call' = Returned("connect", o, 0)
         /\ trace' = <<>>
         /\ resolved' = NoResolution
         /\ UNCHANGED sockVars
    ELSE IF isTcp(o) /\ empty(host_[o])
    THEN /\ call' = Raised("connect", o, "TcpSocket: host cannot be empty", "none")
         /\ trace' = <<>>
         /\ resolved' = NoResolution
         /\ life' = [life EXCEPT ![o] = "failed"]
         /\ UNCHANGED <<host_, fd_, osOpen, peerGone, badClose>>
    ELSE IF res.gai # "ok"
    THEN /\ call' = Raised("connect", o, "getaddrinfo", res.gai)
         /\ trace' = <<OsCall("getaddrinfo", 0, -1)>>
         /\ resolved' = res
         /\ life' = [life EXCEPT ![o] = "failed"]
         /\ UNCHANGED <<host_, fd_, osOpen, peerGone, badClose>>
    ELSE LET w == Walk(res.cands, 1, NewFd, "none", <<OsCall("getaddrinfo", 0, -1)>>) IN
         /\ trace' = w.tr
         /\ resolved' = res
         /\ IF w.fd >= 0
            THEN /\ fd_' = [fd_ EXCEPT ![o] = w.fd]
                 /\ osOpen' = osOpen \cup {w.fd}
                 /\ life' = [life EXCEPT ![o] = "open"]
                 /\ call' = Returned("connect", o, 0)
            ELSE /\ UNCHANGED <<fd_, osOpen>>
                 /\ life' = [life EXCEPT ![o] = "failed"]
                 /\ call' = Raised("connect", o,
                                   IF isTcp(o) THEN "connect" ELSE "udp connect",
                                   IF w.lastErrno # "none" THEN w.lastErrno ELSE "ECONNREFUSED")
         /\ UNCHANGED <<host_, peerGone, badClose>>

\* a close that releases the descriptor and forgets fd_ = -1
closeKeepFd(o) ==
    IF fd_[o] < 0
    THEN /\ trace' = <<>>
         /\ resolved' = NoResolution
         /\ UNCHANGED sockVars
    ELSE /\ trace' = <<OsCall("shutdown", 0, fd_[o]), OsCall("close", 0, fd_[o])>>
         /\ resolved' = NoResolution
         /\ badClose' = (badClose \/ fd_[o] \notin osOpen)
         /\ osOpen' = osOpen \ {fd_[o]}
         /\ peerGone' = peerGone \ {fd_[o]}
         /\ life' = [life EXCEPT ![o] = "closed"]
         /\ UNCHANGED <<host_, fd_>>

\* a close that shuts the link down and keeps the descriptor
closeShutdownOnly(o) ==
    IF fd_[o] < 0
    THEN /\ trace' = <<>>
         /\ resolved' = NoResolution
         /\ UNCHANGED sockVars
    ELSE /\ trace' = <<OsCall("shutdown", 0, fd_[o])>>
         /\ resolved' = NoResolution
         /\ peerGone' = peerGone \cup {fd_[o]}
         /\ life' = [life EXCEPT ![o] = "closed"]
         /\ UNCHANGED <<host_, fd_, osOpen, badClose>>

\* TcpSocket::close / UdpSocket::close
close(o) ==
    IF fd_[o] < 0
    THEN /\ trace' = <<>>
         /\ resolved' = NoResolution
         /\ UNCHANGED sockVars
    ELSE /\ trace' = <<OsCall("shutdown", 0, fd_[o]), OsCall("close", 0, fd_[o])>>
         /\ resolved' = NoResolution
         /\ badClose' = (badClose \/ fd_[o] \notin osOpen)
         /\ osOpen' = osOpen \ {fd_[o]}
         /\ peerGone' = peerGone \ {fd_[o]}
         /\ fd_' = [fd_ EXCEPT ![o] = -1]
         /\ life' = [life EXCEPT ![o] = "closed"]
         /\ UNCHANGED host_

----------------------------------------------------------------------------
(* send *)

\* What ::send(fd, buf, len, 0) can return.  On a broken link a stream send
\* reports 0 or EPIPE and a datagram send reports ECONNREFUSED; on a healthy
\* link a stream send accepts 1..len bytes, a datagram send reports 0..len,
\* and either may fail for a local reason.  Any call may be interrupted.
OsSend(o, len) ==
    (IF sEintr < MaxEintr THEN {[n |-> -1, errno |-> "EINTR"]} ELSE {}) \cup
    (IF fd_[o] \in peerGone
     THEN IF isTcp(o)
          THEN {[n |-> 0, errno |-> "none"], [n |-> -1, errno |-> "EPIPE"]}
          ELSE {[n |-> -1, errno |-> "ECONNREFUSED"]}
     ELSE {[n |-> k, errno |-> "none"] : k \in (IF isTcp(o) THEN 1..len ELSE 0..len)}
          \cup {[n |-> -1, errno |-> "ENOBUFS"]})

NoOsResult == [n |-> 1, errno |-> "none"]

\* a send loop that forgets to advance dataPtr hands the OS the start of the buffer
TakenFromStart(buf, ptr, n) == SubSeq(buf, 1, n)

\* the bytes of buf at offsets ptr .. ptr+n-1
Taken(buf, ptr, n) == SubSeq(buf, ptr + 1, ptr + n)

\* a send that omits the isConnected() check
sendStringUnchecked(o, p) ==
    /\ sData' = p
    /\ sPtr' = 0
    /\ sLeft' = Len(p)
    /\ sAccepted' = <<>>
    /\ sCalls' = 0
    /\ sEintr' = 0
    /\ sLast' = NoOsResult
    /\ trace' = <<>>
    /\ resolved' = NoResolution
    /\ call' = Running("send", o)
    /\ UNCHANGED sockVars

\* entry of TcpSocket::send / UdpSocket::send (through sendString)
sendString(o, p) ==
    /\ sData' = p
    /\ sPtr' = 0
    /\ sLeft' = Len(p)
    /\ sAccepted' = <<>>
    /\ sCalls' = 0
    /\ sEintr' = 0
    /\ sLast' = NoOsResult
    /\ trace' = <<>>
    /\ resolved' = NoResolution
    /\ call' = IF ~isConnected(o)
               THEN Raised("send", o,
                           IF isTcp(o) THEN "send: not connected"
                                       ELSE "udp send: not connected", "none")
               ELSE Running("send", o)
    /\ UNCHANGED sockVars

\* a send loop that retries a zero-byte return like an interruption
TcpOutcomeZeroRetry(r) ==
    IF r.n > 0 THEN "advance"
    ELSE IF r.n = 0 \/ r.errno = "EINTR" THEN "retry"
    ELSE "error"

\* a send loop that reports an interruption like any other failure
TcpOutcomeEintrError(r) ==
    IF r.n > 0 THEN "advance"
    ELSE IF r.n = 0 THEN "closed"
    ELSE "error"

\* TcpSocket::send: what the loop does with the return r of ::send
TcpOutcome(r) ==
    IF r.n > 0 THEN "advance"
    ELSE IF r.n = 0 THEN "closed"
    ELSE IF r.errno = "EINTR" THEN "retry"
    ELSE "error"

\* TcpSocket::send: one evaluation of while (bytesLeft > 0) and, when it
\* holds, one ::send call returning r
TcpSendStep(o, r) ==
    IF ~(sLeft > 0)
    THEN /\ call' = Returned("send", o, Len(sData))
         /\ UNCHANGED <<sPtr, sLeft, sAccepted, sCalls, sEintr, sLast>>
    ELSE /\ sCalls' = sCalls + 1
         /\ sLast' = r
         /\ sAccepted' = sAccepted \o Taken(sData, sPtr, IF r.n > 0 THEN r.n ELSE 0)
         /\ CASE TcpOutcome(r) = "advance" ->
                   /\ sPtr' = sPtr + r.n
                   /\ sLeft' = sLeft - r.n
                   /\ UNCHANGED <<call, sEintr>>
              [] TcpOutcome(r) = "closed" ->
                   /\ call' = Raised("send", o, "send: connection closed by peer", "none")
                   /\ UNCHANGED <<sPtr, sLeft, sEintr>>
              [] TcpOutcome(r) = "retry" ->
                   /\ sEintr' = sEintr + 1
                   /\ UNCHANGED <<call, sPtr, sLeft>>
              [] OTHER ->
                   /\ call' = Raised("send", o, "send", r.errno)
                   /\ UNCHANGED <<sPtr, sLeft, sEintr>>

\* a datagram send that accepts a short count as success
UdpOutcomeShortOk(r, len) ==
    IF r.n >= 0 THEN "sent"
    ELSE IF r.errno = "EINTR" THEN "retry"
    ELSE "error"

\* UdpSocket::send: what the loop does with the return r of ::send(.., len, ..)
UdpOutcome(r, len) ==
    IF r.n >= 0
    THEN IF r.n # len THEN "short" ELSE "sent"
    ELSE IF r.errno = "EINTR" THEN "retry"
    ELSE "error"

\* a datagram send that sends the rest of the payload after a short count
UdpSendStepSplit(o, r) ==
    /\ sCalls' = sCalls + 1
    /\ sLast' = r
    /\ sAccepted' = sAccepted \o Taken(sData, sPtr, IF r.n > 0 THEN r.n ELSE 0)
    /\ CASE UdpOutcome(r, sLeft) = "sent" ->
              /\ call' = Returned("send", o, Len(sData))
              /\ UNCHANGED <<sPtr, sLeft, sEintr>>
         [] UdpOutcome(r, sLeft) = "short" ->
              /\ sPtr' = sPtr + r.n
              /\ sLeft' = sLeft - r.n
              /\ UNCHANGED <<call, sEintr>>
         [] UdpOutcome(r, sLeft) = "retry" ->
              /\ sEintr' = sEintr + 1
              /\ UNCHANGED <<call, sPtr, sLeft>>
         [] OTHER ->
              /\ call' = Raised("send", o, "udp send", r.errno)
              /\ UNCHANGED <<sPtr, sLeft, sEintr>>

\* UdpSocket::send: one pass of for (;;), one ::send call returning r
UdpSendStep(o, r) ==
    /\ sCalls' = sCalls + 1
    /\ sLast' = r
    /\ sAccepted' = sAccepted \o Taken(sData, sPtr, IF r.n > 0 THEN r.n ELSE 0)
    /\ CASE UdpOutcome(r, sLeft) = "sent" ->
              /\ call' = Returned("send", o, r.n)
              /\ UNCHANGED <<sPtr, sLeft, sEintr>>
         [] UdpOutcome(r, sLeft) = "short" ->
              /\ call' = Raised("send", o, "udp send: short datagram send", "none")
              /\ UNCHANGED <<sPtr, sLeft, sEintr>>
         [] UdpOutcome(r, sLeft) = "retry" ->
              /\ sEintr' = sEintr + 1
              /\ UNCHANGED <<call, sPtr, sLeft>>
         [] OTHER ->
              /\ call' = Raised("send", o, "udp send", r.errno)
              /\ UNCHANGED <<sPtr, sLeft, sEintr>>

SendStep(o, r) ==
    /\ IF isTcp(o) THEN TcpSendStep(o, r) ELSE UdpSendStep(o, r)
    /\ UNCHANGED <<sData, trace, resolved, sockVars>>

Sending(o) == call.status = "running" /\ call.op = "send" /\ call.obj = o
Busy == call.status = "running"

----------------------------------------------------------------------------
(* Sensor: configuration, readings and the payload *)

\* metric names, as character sequences
FrameWidth == <<"f", "r", "a", "m", "e", "_", "w", "i", "d", "t", "h">>
Brightness == <<"b", "r", "i", "g", "h", "t", "n", "e", "s", "s">>
Foo == <<"f", "o", "o">>
Channels == <<"c", "h", "a", "n", "n", "e", "l", "s">>
FrameHeight == <<"f", "r", "a", "m", "e", "_", "h", "e", "i", "g", "h", "t">>
FrameStatus == <<"f", "r", "a", "m", "e", "_", "s", "t", "a", "t", "u", "s">>
Size == <<"s", "i", "z", "e">>
Luma == <<"l", "u", "m", "a">>
HeightBytes == <<"h", "e", "i", "g", "h", "t", "_", "b", "y", "t", "e", "s">>
ChannelsSize == <<"c", "h", "a", "n", "n", "e", "l", "s", "_", "s", "i", "z", "e">>
BytesLuma == <<"b", "y", "t", "e", "s", "_", "l", "u", "m", "a">>

EmptyMap == <<>>

\* the configurations a Sensor is constructed with
SensorConfigs ==
    { [sensorId |-> <<"s", "1">>, intervalSeconds |-> 1,
       units |-> [n \in {FrameWidth} |-> "px"],
       metadata |-> [k \in {"environment"} |-> "unit-test"]],
      [sensorId |-> <<"s", "2">>, intervalSeconds |-> 2,
       units |-> EmptyMap, metadata |-> EmptyMap] }

\* configurations the constructor has to refuse: no identifier, or an interval
\* that is zero or negative
InvalidConfigs ==
    { [sensorId |-> id, intervalSeconds |-> n, units |-> EmptyMap, metadata |-> EmptyMap] :
        id \in {<<>>, <<"s", "1">>}, n \in {-1, 0, 1} }
    \ { [sensorId |-> <<"s", "1">>, intervalSeconds |-> 1,
          units |-> EmptyMap, metadata |-> EmptyMap] }

\* what IDataSource::readAll can return: metric name -> value, in thousandths
ReadingSets ==
    { EmptyMap,
      [n \in {FrameWidth} |-> 640000],
      [n \in {Brightness, Foo} |-> IF n = Brightness THEN 20005 ELSE -1234] }

\* system_clock::now() in milliseconds
Times == {1000}

\* std::string_view::find(sub) != npos
Contains(name, sub) ==
    \E i \in 1..(Len(name) - Len(sub) + 1) : SubSeq(name, i, i + Len(sub) - 1) = sub

RECURSIVE Pow10(_)
Pow10(k) == IF k <= 0 THEN 1 ELSE 10 * Pow10(k - 1)

\* roundToDecimals on a value held in thousandths: std::round(value * scale) / scale
\* rounds half away from zero
roundToDecimals(value, decimals) ==
    LET step == Pow10(3 - decimals)
        mag  == IF value < 0 THEN -value ELSE value
        r    == ((2 * mag + step) \div (2 * step)) * step
    IN IF value < 0 THEN -r ELSE r

\* a unit lookup that asks the name heuristics before the configured units
inferUnitHeuristicFirst(readingName) ==
    IF Contains(readingName, <<"w", "i", "d", "t", "h">>)
       \/ Contains(readingName, <<"h", "e", "i", "g", "h", "t">>) THEN "pixels"
    ELSE IF Contains(readingName, <<"c", "h", "a", "n", "n", "e", "l", "s">>) THEN "count"
    ELSE IF Contains(readingName, <<"b", "y", "t", "e", "s">>)
            \/ Contains(readingName, <<"s", "i", "z", "e">>) THEN "bytes"
    ELSE IF Contains(readingName, <<"b", "r", "i", "g", "h", "t", "n", "e", "s", "s">>)
            \/ Contains(readingName, <<"l", "u", "m", "a">>) THEN "intensity"
    ELSE IF readingName \in DOMAIN config_.units THEN config_.units[readingName]
    ELSE "unknown"

\* the lambda inferUnitFromReadingName of buildJsonPayload
inferUnitFromReadingName(readingName) ==
    IF readingName \in DOMAIN config_.units THEN config_.units[readingName]
    ELSE IF Contains(readingName, <<"w", "i", "d", "t", "h">>)
            \/ Contains(readingName, <<"h", "e", "i", "g", "h", "t">>) THEN "pixels"
    ELSE IF Contains(readingName, <<"c", "h", "a", "n", "n", "e", "l", "s">>) THEN "count"
    ELSE IF Contains(readingName, <<"b", "y", "t", "e", "s">>)
            \/ Contains(readingName, <<"s", "i", "z", "e">>) THEN "bytes"
    ELSE IF Contains(readingName, <<"b", "r", "i", "g", "h", "t", "n", "e", "s", "s">>)
            \/ Contains(readingName, <<"l", "u", "m", "a">>) THEN "intensity"
    ELSE "unknown"

\* a payload that always carries a "metadata" key, also for no metadata
buildJsonPayloadAlwaysMetadata(readingsMap, epoch) ==
    LET readingsJson ==
            [n \in DOMAIN readingsMap |->
                [value |-> roundToDecimals(readingsMap[n], 2),
                 unit |-> inferUnitFromReadingName(n)]]
        doc ==
            [keys |-> {"sensor_id", "timestamp_ms", "metadata"}
                      \cup (IF DOMAIN readingsJson # {} THEN {"readings"} ELSE {}),
             sensor_id |-> sensorId_,
             metadata |-> config_.metadata,
             timestamp_ms |-> epoch,
             readings |-> readingsJson]
    IN <<doc, "\n">>

\* Sensor::buildJsonPayload: the JSON document (keys = the keys it holds)
\* followed by the newline
buildJsonPayload(readingsMap, epoch) ==
    LET readingsJson ==
            [n \in DOMAIN readingsMap |->
                [value |-> roundToDecimals(readingsMap[n], 2),
                 unit |-> inferUnitFromReadingName(n)]]
        doc ==
            [keys |-> {"sensor_id", "timestamp_ms"}
                      \cup (IF DOMAIN config_.metadata # {} THEN {"metadata"} ELSE {})
                      \cup (IF DOMAIN readingsJson # {} THEN {"readings"} ELSE {}),
             sensor_id |-> sensorId_,
             metadata |-> config_.metadata,
             timestamp_ms |-> epoch,
             readings |-> readingsJson]
    IN <<doc, "\n">>

----------------------------------------------------------------------------
(* Initial values *)

\* the send bookkeeping of the model is per call: the next call starts afresh
NoSend ==
    /\ sData' = <<>>
    /\ sPtr' = 0
    /\ sLeft' = 0
    /\ sAccepted' = <<>>
    /\ sCalls' = 0
    /\ sEintr' = 0
    /\ sLast' = NoOsResult

NoCall == [op |-> "none", obj |-> "none", status |-> "idle", what |-> "none",
           errno |-> "none", ret |-> -1]
NotMade == [status |-> "none", type |-> "none", host |-> <<>>, port |-> 0,
            fd |-> -1, err |-> "none"]
NoLoopRes == [op |-> "none", status |-> "idle", what |-> "none"]

FactoryIdle ==
    /\ cfg = [kind |-> <<>>, host |-> <<>>, port |-> 0]
    /\ made = NotMade

\* freshly constructed sockets: host stored, fd_{-1}, nothing opened
\* nothing has been connected, closed or sent yet
\* a frame (cv::Mat): its size, channels and the mean of its first channel
\* in thousandths
Frame(c, r, ch, m) == [cols |-> c, rows |-> r, channels |-> ch, mean |-> m]
EmptyFrame == Frame(0, 0, 0, 0)
NoGrab == [ok |-> FALSE, frame |-> EmptyFrame]

\* no camera and no data source have been made
NoCamera ==
    /\ camera_ = "null"
    /\ opened_ = FALSE
    /\ index_ = 0
    /\ hwCtor = "none"
    /\ released = FALSE
    /\ hwReads = 0
    /\ grabbed = NoGrab

NoHistory ==
    /\ reopened = {}
    /\ dgrams = <<>>
    /\ done = <<>>
    /\ nCalls = 0
    /\ NoCamera

\* main() is not part of the behaviour: its variables stay as they are
MainUnused ==
    /\ spc = "none"
    /\ runDuration = 0
    /\ elapsed = 0
    /\ stops = {}
    /\ sensorJson = <<>>
    /\ transportJson = <<>>
    /\ sensorCfg = <<>>

SockInit ==
    /\ host_ \in [Objs -> Hosts]
    /\ fd_ = [o \in Objs |-> -1]
    /\ osOpen = {}
    /\ peerGone = {}
    /\ badClose = FALSE
    /\ life = [o \in Objs |-> "fresh"]
    /\ alive = Objs
    /\ call = NoCall
    /\ trace = <<>>
    /\ resolved = NoResolution
    /\ sData = <<>>
    /\ sPtr = 0
    /\ sLeft = 0
    /\ sAccepted = <<>>
    /\ sCalls = 0
    /\ sEintr = 0
    /\ sLast = NoOsResult
    /\ NoHistory

\* a constructed Sensor that nobody has called yet
LoopIdle ==
    /\ config_ \in SensorConfigs
    /\ sensorId_ = config_.sensorId
    /\ intervalSeconds_ = config_.intervalSeconds
    /\ tx \in Objs
    /\ running = TRUE
    /\ lpc = "idle"
    /\ inRun = FALSE
    /\ loopRes = NoLoopRes
    /\ values = <<>>
    /\ payload = <<>>
    /\ steps = <<>>
    /\ rChecks = 0
    /\ rOnce = 0
    /\ rSleeps = 0
    /\ rSlept = 0
    /\ rSends = 0
    /\ rSent = 0
    /\ firstSaw = "none"
    /\ lateOnce = 0
    /\ lateSleeps = 0
    /\ closedOnce = FALSE

\* the constructor's member initializers have run with some SensorConfig,
\* its body has not: nothing else has happened
LoopNew ==
    /\ config_ \in SensorConfigs \cup InvalidConfigs
    /\ sensorId_ = config_.sensorId
    /\ intervalSeconds_ = config_.intervalSeconds
    /\ tx \in Objs
    /\ running = TRUE
    /\ lpc = "new"
    /\ inRun = FALSE
    /\ loopRes = NoLoopRes
    /\ values = <<>>
    /\ payload = <<>>
    /\ steps = <<>>
    /\ rChecks = 0
    /\ rOnce = 0
    /\ rSleeps = 0
    /\ rSlept = 0
    /\ rSends = 0
    /\ rSent = 0
    /\ firstSaw = "none"
    /\ lateOnce = 0
    /\ lateSleeps = 0
    /\ closedOnce = FALSE

----------------------------------------------------------------------------
(* Spec: one thread calling the sockets' operations in any order *)

Connect ==
    \E o \in alive, res \in Resolutions :
        /\ ~Busy
        /\ connect(o, res)
        /\ reopened' = IF life[o] = "closed" /\ call'.status = "returned"
                       THEN reopened \cup {o} ELSE reopened
        /\ NoSend
        /\ UNCHANGED <<factoryVars, histVars, mainVars, alive, loopVars>>

Close ==
    \E o \in alive :
        /\ ~Busy
        /\ close(o)
        /\ reopened' = reopened \ {o}
        /\ call' = Returned("close", o, 0)
        /\ NoSend
        /\ UNCHANGED <<factoryVars, histVars, mainVars, alive, loopVars>>

Send ==
    \E o \in alive, p \in Payloads :
        /\ ~Busy
        /\ sendString(o, p)
        /\ UNCHANGED <<factoryVars, reopened, histVars, mainVars, alive, loopVars>>

Step ==
    \E o \in Objs :
        /\ Sending(o)
        /\ \E r \in OsSend(o, sLeft) : SendStep(o, r)
        /\ UNCHANGED <<factoryVars, reopened, histVars, mainVars, alive, loopVars>>

\* a destructor that forgets to close
DestroyNoClose ==
    \E o \in alive :
        /\ ~Busy
        /\ alive' = alive \ {o}
        /\ reopened' = reopened \ {o}
        /\ call' = Returned("~", o, 0)
        /\ trace' = <<>>
        /\ resolved' = NoResolution
        /\ NoSend
        /\ UNCHANGED <<sockVars, factoryVars, histVars, mainVars, loopVars>>

\* ~TcpSocket / ~UdpSocket: close(), and the object is gone
Destroy ==
    \E o \in alive :
        /\ ~Busy
        /\ close(o)
        /\ alive' = alive \ {o}
        /\ reopened' = reopened \ {o}
        /\ call' = Returned("~", o, 0)
        /\ NoSend
        /\ UNCHANGED <<factoryVars, histVars, mainVars, loopVars>>

\* the peer closes the link of an open descriptor (environment)
PeerClose ==
    \E f \in osOpen \ peerGone :
        /\ peerGone' = peerGone \cup {f}
        /\ UNCHANGED <<host_, fd_, osOpen, badClose, life, alive, callVars, sendVars,
                       factoryVars, reopened, histVars, mainVars, loopVars>>

\* the Sensor is not used here: one fixed, untouched instance
SensorUnused ==
    /\ LoopIdle
    /\ tx = "t1"
    /\ config_.intervalSeconds = 1

Init == FactoryIdle /\ SockInit /\ SensorUnused /\ MainUnused

Next == Connect \/ Close \/ Send \/ Step \/ Destroy \/ PeerClose

Spec == Init /\ [][Next]_vars

\* the send loop makes progress unless the OS keeps interrupting it
Progress ==
    \E o \in Objs :
        /\ Sending(o)
        /\ \E r \in OsSend(o, sLeft) : r.errno # "EINTR" /\ SendStep(o, r)
        /\ UNCHANGED <<factoryVars, reopened, histVars, mainVars, alive, loopVars>>

\* Spec with a thread that keeps running and interruptions that do not recur forever
LiveSpec == Spec /\ WF_vars(Progress)

----------------------------------------------------------------------------
(* Claims about the sockets *)

NotConnectedMsg(o) == IF isTcp(o) THEN "send: not connected" ELSE "udp send: not connected"

\* C3: whenever a stream send returns normally, the bytes the OS accepted over
\* all its ::send calls are exactly the payload, in order, and the returned
\* count is the payload's length; while it runs, what was accepted is the
\* prefix up to the cursor.
C3_StreamSendAllExact ==
    (call.op = "send" /\ call.obj = "t1") =>
        /\ (call.status = "returned" =>
               sAccepted = sData /\ call.ret = Len(sData) /\ sLeft = 0)
        /\ (call.status = "running" =>
               sAccepted = SubSeq(sData, 1, sPtr) /\ sPtr + sLeft = Len(sData))

\* a full-length payload sent in several partial writes, with an interruption
C3_Witness ==
    /\ call.op = "send" /\ call.obj = "t1" /\ call.status = "returned"
    /\ Len(sData) = MaxLen /\ sCalls - sEintr >= 2 /\ sEintr >= 1

\* C4: a send that begins on a socket whose fd_ is unset raises the
\* "not connected" error of its transport and issues no ::send call.
C4_SendNotConnected ==
    [][\A o \in Objs :
          (~Busy /\ fd_[o] < 0 /\ call'.op = "send" /\ call'.obj = o) =>
              /\ call'.status = "raised"
              /\ call'.what = NotConnectedMsg(o)
              /\ sCalls' = 0
              /\ sAccepted' = <<>>]_vars

\* a datagram send refused after the socket had been connected and closed
C4_Witness ==
    /\ call.op = "send" /\ call.obj = "u1" /\ call.status = "raised"
    /\ call.what = "udp send: not connected" /\ life["u1"] = "closed"
    /\ Len(sData) > 0 /\ sCalls = 0

\* C5: close returns (it has no failing path) leaving isConnected() false, and
\* no descriptor is ever released twice: ::close is only called on an open
\* descriptor, and an object that holds none makes no OS call.
C5_CloseIdempotent ==
    /\ ~badClose
    /\ (call.op = "close" => call.status = "returned" /\ fd_[call.obj] < 0)
    /\ \A o \in Objs : fd_[o] >= 0 => fd_[o] \in osOpen

\* a second close on an object that was connected and closed: no OS call
C5_Witness ==
    /\ call.op = "close" /\ life[call.obj] = "closed" /\ trace = <<>>
    /\ fd_[call.obj] < 0

\* C6 as claimed: after send failed because the peer closed the link or on an
\* unrecoverable I/O error, isConnected() no longer reports true.
C6_Original ==
    (call.op = "send" /\ call.status = "raised" /\ call.what # NotConnectedMsg(call.obj))
        => fd_[call.obj] < 0

\* C6 amended: isConnected() is true exactly between a successful connect and
\* the next close, i.e. while the object holds an open descriptor; a send that
\* fails on the link leaves it true.
C6_ConnectedMeansHandleOpen ==
    /\ \A o \in Objs : isConnected(o) <=> life[o] = "open"
    /\ \A o \in Objs : life[o] = "open" => fd_[o] \in osOpen
    /\ (call.op = "send" /\ call.status = "raised" /\ call.what # NotConnectedMsg(call.obj))
           => life[call.obj] = "open"

\* a send failed because the peer had closed, and isConnected() is still true
C6_Witness ==
    /\ call.op = "send" /\ call.status = "raised"
    /\ call.what = "send: connection closed by peer"
    /\ isConnected(call.obj) /\ fd_[call.obj] \in peerGone

\* C10: a stream send that has started always ends (given that interruptions
\* do not recur forever); the loop goes on only after a positive return or an
\* interruption: a zero return raises "connection closed by peer" and any
\* other negative return raises at once.
C10_StreamSendTerminates ==
    /\ (Sending("t1") ~> ~Sending("t1"))
    /\ []((call.op = "send" /\ call.obj = "t1" /\ sCalls > 0) =>
            /\ (sLast.n = 0 =>
                   call.status = "raised" /\ call.what = "send: connection closed by peer")
            /\ ((sLast.n < 0 /\ sLast.errno # "EINTR") =>
                   call.status = "raised" /\ call.what = "send")
            /\ (call.status = "raised" => sLast.n <= 0 /\ sLast.errno # "EINTR"))

\* a stream send ended by a zero return after it had accepted part of the payload
C10_Witness ==
    /\ call.op = "send" /\ call.obj = "t1" /\ call.status = "raised"
    /\ call.what = "send: connection closed by peer"
    /\ sLast.n = 0 /\ sPtr > 0 /\ sLeft > 0 /\ sEintr >= 1

\* C11: on both transports an interrupted ::send is never what a send raises:
\* the loop issues the call again with the cursor, the bytes left and the
\* bytes accepted so far untouched, so what the OS is handed next starts at
\* the same byte; a send that raises does so on a failure other than EINTR.
C11_EintrRetriedNotReported ==
    /\ [](call.op = "send" /\ call.status = "raised" =>
             call.errno # "EINTR" /\ (sCalls > 0 => sLast.errno # "EINTR"))
    /\ [][\A o \in Objs :
            (Sending(o) /\ sCalls' = sCalls + 1 /\ sLast'.errno = "EINTR") =>
                /\ call' = call
                /\ sEintr' = sEintr + 1
                /\ sData' = sData /\ sPtr' = sPtr /\ sLeft' = sLeft
                /\ sAccepted' = sAccepted
                /\ fd_' = fd_]_vars

\* a datagram send that went through after the most interruptions
C11_Witness ==
    /\ call.op = "send" /\ call.obj = "u1" /\ call.status = "returned"
    /\ sEintr = MaxEintr /\ sCalls = MaxEintr + 1 /\ Len(sData) = MaxLen

\* C12: a datagram send hands the OS the whole payload in one ::send call,
\* issued again only after an interruption; a call that reports a count other
\* than the payload's length raises "short datagram send", and nothing more
\* is sent: the cursor never leaves the start of the buffer.
C12_DatagramOneCall ==
    (call.op = "send" /\ call.obj = "u1") =>
        /\ sPtr = 0 /\ sLeft = Len(sData)
        /\ sCalls - sEintr <= 1
        /\ (call.status = "running" => sCalls = sEintr)
        /\ (call.status = "returned" =>
               sCalls - sEintr = 1 /\ sLast.n = Len(sData) /\ call.ret = Len(sData))
        /\ ((sCalls > 0 /\ sLast.n >= 0 /\ sLast.n # Len(sData)) =>
               /\ call.status = "raised"
               /\ call.what = "udp send: short datagram send"
               /\ sCalls - sEintr = 1)

\* a datagram of full length of which the OS reported a part, after an interruption
C12_Witness ==
    /\ call.op = "send" /\ call.obj = "u1" /\ call.status = "raised"
    /\ call.what = "udp send: short datagram send"
    /\ Len(sData) = MaxLen /\ sLast.n = 1 /\ sEintr = 1 /\ sCalls = 2

\* the first candidate of c whose socket() and ::connect both succeed, 0 if none
FirstOk(c) ==
    IF \E i \in 1..Len(c) : c[i].r = "ok"
    THEN CHOOSE i \in 1..Len(c) : c[i].r = "ok" /\ \A j \in 1..(i - 1) : c[j].r # "ok"
    ELSE 0

\* C13: connect() tries the candidates getaddrinfo returned in their order,
\* one socket() per candidate and each candidate once; it stops at the first
\* candidate whose socket() and ::connect succeed, keeps that descriptor, and
\* makes no OS call for a later candidate; when none succeeds it has tried all.
C13_CandidatesInOrder ==
    (call.op = "connect" /\ resolved.gai = "ok") =>
        LET c == resolved.cands
            k == IF FirstOk(c) > 0 THEN FirstOk(c) ELSE Len(c)
            tried == SubSeq(trace, 2, Len(trace))
            SocketCalls(i) == {j \in 1..Len(tried) : tried[j].c = "socket" /\ tried[j].i = i}
        IN /\ trace[1].c = "getaddrinfo"
           /\ \A j \in 1..(Len(tried) - 1) : tried[j].i <= tried[j + 1].i
           /\ {tried[j].i : j \in 1..Len(tried)} = 1..k
           /\ \A i \in 1..k : Cardinality(SocketCalls(i)) = 1
           /\ IF FirstOk(c) > 0
              THEN /\ call.status = "returned"
                   /\ tried[Len(tried)] = OsCall("connect", k, fd_[call.obj])
                   /\ fd_[call.obj] \in osOpen
                   /\ \A j \in 1..Len(tried) : tried[j].c = "close" => tried[j].i < k
              ELSE call.status = "raised" /\ fd_[call.obj] < 0

\* the first candidate connected while a later candidate was never tried
C13_Witness ==
    /\ call.op = "connect" /\ call.status = "returned"
    /\ Len(resolved.cands) = MaxCand /\ resolved.cands[1].r = "ok"
    /\ resolved.cands[MaxCand].r = "ok"
    /\ Len(trace) = 3 /\ fd_[call.obj] >= 0

\* C14: when every candidate fails, the exception connect() raises carries
\* the errno of the last failed attempt and its text names the endpoint, the
\* host and the port.
C14_AllFailNamesEndpoint ==
    (call.op = "connect" /\ call.status = "raised" /\ resolved.gai = "ok") =>
        /\ call.errno = resolved.cands[Len(resolved.cands)].e
        /\ ErrorText(call).detail = call.errno
        /\ {"host_", "port_"} \subseteq ErrorText(call).names

\* C16: connect() on a socket that holds a descriptor returns without a
\* getaddrinfo, socket() or ::connect call and leaves the descriptor, the
\* host and the set of open descriptors as they were (a step that changes
\* peerGone is the peer's, not a call).
C16_ConnectWhenConnectedNoOp ==
    [][\A o \in Objs :
          (/\ ~Busy /\ fd_[o] >= 0
           /\ call'.op = "connect" /\ call'.obj = o
           /\ peerGone' = peerGone) =>
              /\ call'.status = "returned"
              /\ trace' = <<>> /\ resolved' = NoResolution
              /\ fd_' = fd_ /\ osOpen' = osOpen /\ host_' = host_
              /\ life' = life]_vars

\* a second connect() on a connected datagram socket
C16_Witness ==
    /\ call.op = "connect" /\ call.obj = "u1" /\ call.status = "returned"
    /\ trace = <<>> /\ fd_["u1"] >= 0 /\ life["u1"] = "open"

\* the descriptors the socket objects hold
Held == {fd_[o] : o \in {x \in DOMAIN fd_ : fd_[x] >= 0}}

\* C17: each socket object owns one open descriptor while isConnected() is
\* true and none otherwise: the open descriptors are exactly the ones the
\* objects hold, no two objects hold the same one, a destroyed object holds
\* none, no descriptor is closed twice; and inside connect() every socket
\* opened for a candidate that then failed is closed before the next
\* socket() call, so that connect() ends with one more open descriptor when
\* it succeeds and with as many as before when it fails.
C17_OneHandlePerObject ==
    /\ osOpen = Held
    /\ \A o1, o2 \in Objs : (o1 # o2 /\ fd_[o1] >= 0) => fd_[o1] # fd_[o2]
    /\ \A o \in Objs \ alive : fd_[o] < 0
    /\ ~badClose
    /\ (call.op = "connect" /\ resolved.gai = "ok") =>
           LET Opened == {j \in 1..Len(trace) : trace[j].c = "socket" /\ trace[j].fd >= 0}
               Closed == {j \in 1..Len(trace) : trace[j].c = "close"}
               NextSocket(j) ==
                   {k \in (j + 1)..Len(trace) : trace[k].c = "socket"}
               ClosedBeforeNext(j) ==
                   \E k \in Closed :
                       /\ k > j /\ trace[k].fd = trace[j].fd /\ trace[k].i = trace[j].i
                       /\ \A n \in NextSocket(j) : k < n
               Kept(j) ==
                   /\ call.status = "returned"
                   /\ trace[j].fd = fd_[call.obj]
                   /\ NextSocket(j) = {}
           IN /\ \A j \in Opened : ClosedBeforeNext(j) \/ Kept(j)
              /\ Cardinality(Opened) - Cardinality(Closed)
                     = (IF isConnected(call.obj) THEN 1 ELSE 0)

\* a connected socket was destroyed, which closed its descriptor, while the
\* other object keeps its own
C17_Witness ==
    /\ call.op = "~" /\ call.obj \notin alive /\ life[call.obj] = "closed"
    /\ Len(trace) = 2 /\ trace[2].c = "close"
    /\ Cardinality(osOpen) = 1 /\ alive # {}

----------------------------------------------------------------------------
(* MoveSpec: two objects of each socket class, connected, closed, destroyed, *)
(* move-constructed and move-assigned in any order                           *)

\* what a moved-from std::string holds is unspecified: empty, or its old value
MovedFrom(h) == {<<>>, h}

\* a move constructor that leaves the source its descriptor
moveConstructKeepsSource(dst, src, h) ==
    /\ host_' = [host_ EXCEPT ![dst] = host_[src], ![src] = h]
    /\ fd_' = [fd_ EXCEPT ![dst] = fd_[src]]
    /\ life' = [life EXCEPT ![dst] = IF fd_[src] >= 0 THEN "open" ELSE "fresh",
                            ![src] = "moved"]
    /\ alive' = alive \cup {dst}
    /\ trace' = <<>>
    /\ UNCHANGED <<osOpen, peerGone, badClose>>

\* TcpSocket(TcpSocket&& other) / UdpSocket(UdpSocket&& other): dst is
\* constructed from src; h is what src's host_ holds afterwards
moveConstruct(dst, src, h) ==
    /\ host_' = [host_ EXCEPT ![dst] = host_[src], ![src] = h]
    /\ fd_' = [fd_ EXCEPT ![dst] = fd_[src], ![src] = -1]
    /\ life' = [life EXCEPT ![dst] = IF fd_[src] >= 0 THEN "open" ELSE "fresh",
                            ![src] = "moved"]
    /\ alive' = alive \cup {dst}
    /\ trace' = <<>>
    /\ UNCHANGED <<osOpen, peerGone, badClose>>

\* operator=(TcpSocket&& other) / operator=(UdpSocket&& other): unless
\* this == &other, close(), then take other's host_ and fd_ and unset other's
moveAssign(dst, src, h) ==
    IF dst # src
    THEN LET old == fd_[dst] IN
         /\ trace' = IF old >= 0
                      THEN <<OsCall("shutdown", 0, old), OsCall("close", 0, old)>>
                      ELSE <<>>
         /\ badClose' = (badClose \/ (old >= 0 /\ old \notin osOpen))
         /\ osOpen' = osOpen \ {old}
         /\ peerGone' = peerGone \ {old}
         /\ host_' = [host_ EXCEPT ![dst] = host_[src], ![src] = h]
         /\ fd_' = [fd_ EXCEPT ![dst] = fd_[src], ![src] = -1]
         /\ life' = [life EXCEPT ![dst] = IF fd_[src] >= 0 THEN "open"
                                          ELSE IF old >= 0 THEN "closed" ELSE @,
                                 ![src] = "moved"]
         /\ UNCHANGED alive
    ELSE /\ trace' = <<>>
         /\ UNCHANGED <<sockVars, alive>>

MoveConstruct ==
    \E src \in alive, dst \in MoveObjs \ alive :
        /\ ~Busy
        /\ isTcp(dst) = isTcp(src)
        /\ \E h \in MovedFrom(host_[src]) : moveConstruct(dst, src, h)
        /\ call' = Returned("move", dst, 0)
        /\ resolved' = NoResolution
        /\ reopened' = reopened \ {dst, src}
        /\ NoSend
        /\ UNCHANGED <<factoryVars, histVars, mainVars, loopVars>>

MoveAssign ==
    \E src \in alive, dst \in alive :
        /\ ~Busy
        /\ isTcp(dst) = isTcp(src)
        /\ \E h \in MovedFrom(host_[src]) : moveAssign(dst, src, h)
        /\ call' = Returned(IF dst = src THEN "move=self" ELSE "move=", dst, 0)
        /\ resolved' = NoResolution
        /\ reopened' = reopened \ {dst, src}
        /\ NoSend
        /\ UNCHANGED <<factoryVars, histVars, mainVars, loopVars>>

\* one object exists, a TcpSocket or a UdpSocket; the other slots are empty
\* (a move needs two objects of one class, so the other class stays empty)
MoveInit ==
    /\ FactoryIdle
    /\ SensorUnused
    /\ alive \in {{"t1"}, {"u1"}}
    /\ host_ \in [MoveObjs -> Hosts]
    /\ \A o \in MoveObjs \ alive : host_[o] = <<>>
    /\ fd_ = [o \in MoveObjs |-> -1]
    /\ osOpen = {}
    /\ peerGone = {}
    /\ badClose = FALSE
    /\ life = [o \in MoveObjs |-> "fresh"]
    /\ call = NoCall
    /\ trace = <<>>
    /\ resolved = NoResolution
    /\ sData = <<>>
    /\ sPtr = 0
    /\ sLeft = 0
    /\ sAccepted = <<>>
    /\ sCalls = 0
    /\ sEintr = 0
    /\ sLast = NoOsResult
    /\ NoHistory
    /\ MainUnused

MoveNext == Connect \/ Close \/ Destroy \/ MoveConstruct \/ MoveAssign

MoveSpec == MoveInit /\ [][MoveNext]_vars

\* C18: however connect, close, destruction, move construction and move
\* assignment are interleaved, no two objects hold the same descriptor and
\* every open descriptor is held by exactly one living object; a moved-from
\* object holds none until it connects again; move assignment closes the
\* descriptor the destination held, once; assigning an object to itself
\* changes nothing.
C18_MoveNeverShares ==
    /\ [](/\ \A o1, o2 \in MoveObjs : (o1 # o2 /\ fd_[o1] >= 0) => fd_[o1] # fd_[o2]
          /\ osOpen = Held
          /\ \A o \in MoveObjs : (o \notin alive \/ life[o] = "moved") => fd_[o] < 0
          /\ ~badClose)
    /\ [][call'.op = "move=self" =>
             fd_' = fd_ /\ host_' = host_ /\ osOpen' = osOpen /\ alive' = alive
             /\ trace' = <<>>]_vars
    /\ [][call'.op = "move=" =>
             /\ osOpen' = osOpen \ {fd_[call'.obj]}
             /\ (fd_[call'.obj] >= 0 =>
                    trace' = <<OsCall("shutdown", 0, fd_[call'.obj]),
                               OsCall("close", 0, fd_[call'.obj])>>)]_vars
    /\ [][call'.op \in {"move", "move="} =>
             /\ Cardinality({o \in MoveObjs : fd_'[o] >= 0})
                    = Cardinality({o \in MoveObjs : fd_[o] >= 0 /\ fd_[o] \in osOpen'})
             /\ fd_'[call'.obj] \in osOpen' \cup {-1}]_vars

\* a connected object was move-assigned the descriptor of another connected
\* object: its own was closed and the source holds none
C18_Witness ==
    /\ call.op = "move=" /\ Len(trace) = 2 /\ fd_[call.obj] >= 0
    /\ Cardinality(osOpen) = 1
    /\ \E o \in alive : life[o] = "moved" /\ isTcp(o) = isTcp(call.obj) /\ fd_[o] < 0

----------------------------------------------------------------------------
(* FactorySpec: TransportFactory::make applied to one TransportConfig *)

KindChars == {"t", "c", "p", "u", "d", "T", "C", "P", "U", "D"}

\* every three-letter kind over the letters of tcp/udp in both cases, and
\* kinds of other lengths
Kinds ==
    [1..3 -> KindChars] \cup
    { <<>>, <<"t", "c">>, <<"t", "c", "p", "x">>, <<"b", "l", "e">> }

\* int32_t ports: below, at and above the edges of 1..65535
Ports == {-1, 0, 1, 9000, 65535, 65536, 65616, 70000}

FactoryInit ==
    /\ cfg \in [kind : Kinds, host : Hosts, port : Ports]
    /\ made = NotMade
    /\ SockInit
    /\ host_ = [o \in Objs |-> <<"h">>]
    /\ SensorUnused
    /\ MainUnused

Make ==
    /\ made.status = "none"
    /\ made' = make(cfg)
    /\ UNCHANGED <<cfg, alive, sockVars, callVars, sendVars, loopVars, reopened,
                   histVars, mainVars>>

FactoryNext == Make

FactorySpec == FactoryInit /\ [][FactoryNext]_vars

lower(str) == [i \in 1..Len(str) |-> tolower(str[i])]
KindIsTcp(c) == lower(c.kind) = <<"t", "c", "p">>
KindIsUdp(c) == lower(c.kind) = <<"u", "d", "p">>

ValidInput(c) ==
    /\ KindIsTcp(c) \/ KindIsUdp(c)
    /\ Len(c.host) > 0
    /\ isValidPortRange(c.port)

\* C8: every invalid input (empty kind, empty host, port outside 1..65535,
\* unsupported kind) makes TransportFactory::make raise and return nothing.
C8_InvalidInputRaises ==
    (made.status # "none" /\ ~ValidInput(cfg)) => made.status = "error"

\* C9: for kind tcp or udp in any letter case, a non-empty host and a port in
\* 1..65535, make returns the matching transport for that host and port,
\* with fd_ unset: nothing was resolved or opened.
C9_ValidInputMakesTransport ==
    (made.status # "none" /\ ValidInput(cfg)) =>
        /\ made.status = "ok"
        /\ made.type = (IF KindIsTcp(cfg) THEN "TcpTransport" ELSE "UdpTransport")
        /\ made.host = cfg.host
        /\ made.port = cfg.port
        /\ made.fd < 0
        /\ osOpen = {} /\ trace = <<>>

\* a mixed-case udp kind with the highest port
C9_Witness ==
    /\ made.status = "ok" /\ made.type = "UdpTransport"
    /\ cfg.kind = <<"u", "D", "p">> /\ cfg.port = MaxPort

----------------------------------------------------------------------------
(* LoopSpec: one thread calling the Sensor's operations in any order, the  *)
(* flag handed to run being cleared by another thread at any moment        *)

\* the bookkeeping of the model about the last socket call and the last run
\* is per operation: the next operation of the Sensor starts afresh
NoRun ==
    /\ rChecks' = 0 /\ rOnce' = 0 /\ rSleeps' = 0 /\ rSlept' = 0
    /\ rSends' = 0 /\ rSent' = 0 /\ firstSaw' = "none"
    /\ lateOnce' = 0 /\ lateSleeps' = 0
    /\ steps' = <<>>
NoSocketCall == call' = NoCall /\ trace' = <<>> /\ resolved' = NoResolution /\ NoSend

LoopResult(op, status, what) == [op |-> op, status |-> status, what |-> what]

\* the operation of the Sensor that the caller invoked
TopOp == IF inRun THEN "run" ELSE "runOnce"

\* a runOnce that swallows the exception and reports the tick as done
UnwindSwallowed(what) ==
    /\ values' = EmptyMap
    /\ payload' = <<>>
    /\ IF inRun
       THEN /\ lpc' = "sleep"
            /\ UNCHANGED <<inRun, loopRes>>
       ELSE /\ lpc' = "idle"
            /\ loopRes' = LoopResult("runOnce", "returned", "none")
            /\ UNCHANGED inRun

\* an exception leaves runOnce, and run when run called it: neither catches
Unwind(what) ==
    /\ lpc' = "idle"
    /\ inRun' = FALSE
    /\ loopRes' = LoopResult(TopOp, "raised", what)
    /\ values' = EmptyMap
    /\ payload' = <<>>

\* runOnce returns normally: back in run's loop body, or back in the caller
TickDone ==
    /\ values' = EmptyMap
    /\ payload' = <<>>
    /\ IF inRun
       THEN /\ lpc' = "sleep"
            /\ UNCHANGED <<inRun, loopRes>>
       ELSE /\ lpc' = "idle"
            /\ loopRes' = LoopResult("runOnce", "returned", "none")
            /\ UNCHANGED inRun

\* a close that does not reach the transport
SensorCloseNothing ==
    /\ trace' = <<>>
    /\ resolved' = NoResolution
    /\ UNCHANGED sockVars

\* a connect that does not reach the transport
SensorConnectNothing(res) ==
    /\ call' = Returned("connect", tx, 0)
    /\ trace' = <<>>
    /\ resolved' = NoResolution
    /\ UNCHANGED sockVars

\* Sensor::connect and Sensor::close delegate to transport_
SensorConnect(res) == connect(tx, res)
SensorClose == close(tx)

\* a constructor that checks the identifier only
ConstructNoIntervalCheck ==
    /\ lpc = "new"
    /\ IF empty(sensorId_)
       THEN /\ lpc' = "none"
            /\ loopRes' = LoopResult("Sensor", "raised", "Sensor: sensorId must not be empty")
       ELSE /\ lpc' = "idle"
            /\ loopRes' = LoopResult("Sensor", "returned", "none")
    /\ UNCHANGED <<factoryVars, reopened, histVars, mainVars, alive, sockVars, callVars, sendVars, cfgVars, running,
                   inRun, values, payload, steps, runVars, closedOnce>>

\* Sensor::Sensor, the body: an exception leaves no Sensor behind
Construct ==
    /\ lpc = "new"
    /\ IF empty(sensorId_)
       THEN /\ lpc' = "none"
            /\ loopRes' = LoopResult("Sensor", "raised", "Sensor: sensorId must not be empty")
       ELSE IF intervalSeconds_ <= 0
       THEN /\ lpc' = "none"
            /\ loopRes' = LoopResult("Sensor", "raised", "Sensor: intervalSeconds must be > 0")
       ELSE /\ lpc' = "idle"
            /\ loopRes' = LoopResult("Sensor", "returned", "none")
    /\ UNCHANGED <<factoryVars, reopened, histVars, mainVars, alive, sockVars, callVars, sendVars, cfgVars, running,
                   inRun, values, payload, steps, runVars, closedOnce>>

\* a Sensor::connect that catches the transport's exception and returns
LConnectSwallow ==
    \E res \in Resolutions :
        /\ lpc = "idle"
        /\ SensorConnect(res)
        /\ NoSend
        /\ NoRun
        /\ loopRes' = LoopResult("connect", "returned", "none")
        /\ UNCHANGED <<factoryVars, reopened, histVars, mainVars, alive, cfgVars, running, lpc, inRun, values, payload,
                       closedOnce>>

\* the caller invokes connect()
LConnect ==
    \E res \in Resolutions :
        /\ lpc = "idle"
        /\ SensorConnect(res)
        /\ NoSend
        /\ NoRun
        /\ loopRes' = LoopResult("connect", call'.status, call'.what)
        /\ UNCHANGED <<factoryVars, reopened, histVars, mainVars, alive, cfgVars, running, lpc, inRun, values, payload,
                       closedOnce>>

LClose ==
    /\ lpc = "idle"
    /\ SensorClose
    /\ call' = Returned("close", tx, 0)
    /\ NoSend
    /\ loopRes' = LoopResult("close", "returned", "none")
    /\ NoRun
    /\ closedOnce' = TRUE
    /\ UNCHANGED <<factoryVars, reopened, histVars, mainVars, alive, cfgVars, running, lpc, inRun, values, payload>>

\* a runOnce that skips the read and serialises what it has
LRunOnceSkipRead ==
    /\ lpc = "idle"
    /\ lpc' = "build"
    /\ inRun' = FALSE
    /\ NoRun
    /\ NoSocketCall
    /\ UNCHANGED <<factoryVars, reopened, histVars, mainVars, alive, sockVars, cfgVars, running,
                   loopRes, values, payload, closedOnce>>

\* the caller invokes runOnce()
LRunOnce ==
    /\ lpc = "idle"
    /\ lpc' = "read"
    /\ inRun' = FALSE
    /\ NoRun
    /\ NoSocketCall
    /\ UNCHANGED <<factoryVars, reopened, histVars, mainVars, alive, sockVars, cfgVars, running,
                   loopRes, values, payload, closedOnce>>

\* the caller invokes run(running)
LRun ==
    /\ lpc = "idle"
    /\ lpc' = "run_check"
    /\ inRun' = TRUE
    /\ NoRun
    /\ NoSocketCall
    /\ UNCHANGED <<factoryVars, reopened, histVars, mainVars, alive, sockVars, cfgVars, running,
                   loopRes, values, payload, closedOnce>>

\* a loop that runs the body before it looks at the flag for the first time
RunCheckBodyFirst ==
    /\ lpc = "run_check"
    /\ rChecks' = rChecks + 1
    /\ firstSaw' = IF firstSaw # "none" THEN firstSaw
                   ELSE IF running THEN "go" ELSE "stop"
    /\ IF running \/ rOnce = 0
       THEN /\ rOnce < MaxTicks
            /\ rOnce' = rOnce + 1
            /\ lpc' = "read"
            /\ steps' = <<>>
            /\ UNCHANGED <<inRun, loopRes>>
       ELSE /\ lpc' = "idle"
            /\ inRun' = FALSE
            /\ loopRes' = LoopResult("run", "returned", "none")
            /\ UNCHANGED <<rOnce, steps>>
    /\ UNCHANGED <<factoryVars, reopened, histVars, mainVars, alive, sockVars, callVars, sendVars, cfgVars, running,
                   values, payload, rSleeps, rSlept, rSends, rSent, lateOnce,
                   lateSleeps, closedOnce>>

\* run: one evaluation of while (running); the body starts with runOnce()
RunCheck ==
    /\ lpc = "run_check"
    /\ rChecks' = rChecks + 1
    /\ firstSaw' = IF firstSaw # "none" THEN firstSaw
                   ELSE IF running THEN "go" ELSE "stop"
    /\ IF running
       THEN /\ rOnce < MaxTicks
            /\ rOnce' = rOnce + 1
            /\ lpc' = "read"
            /\ steps' = <<>>
            /\ UNCHANGED <<inRun, loopRes>>
       ELSE /\ lpc' = "idle"
            /\ inRun' = FALSE
            /\ loopRes' = LoopResult("run", "returned", "none")
            /\ UNCHANGED <<rOnce, steps>>
    /\ UNCHANGED <<factoryVars, reopened, histVars, mainVars, alive, sockVars, callVars, sendVars, cfgVars, running,
                   values, payload, rSleeps, rSlept, rSends, rSent, lateOnce,
                   lateSleeps, closedOnce>>

\* a runOnce that reads again when the data source fails
ReadAllRetry ==
    /\ lpc = "read"
    /\ \/ \E v \in ReadingSets :
            /\ values' = v
            /\ lpc' = "build"
            /\ UNCHANGED <<inRun, loopRes, payload>>
       \/ /\ Len(steps) < 2
          /\ UNCHANGED <<lpc, inRun, loopRes, values, payload>>
    /\ steps' = Append(steps, "readAll")
    /\ lateOnce' = IF inRun /\ ~running THEN lateOnce + 1 ELSE lateOnce
    /\ UNCHANGED <<factoryVars, reopened, histVars, mainVars, alive, sockVars, callVars, sendVars, cfgVars, running,
                   rChecks, rOnce, rSleeps, rSlept, rSends, rSent, firstSaw,
                   lateSleeps, closedOnce>>

\* runOnce 1) datasource_.readAll(): a ReadingSet, or the source's exception
ReadAll ==
    /\ lpc = "read"
    /\ \/ \E v \in ReadingSets :
            /\ values' = v
            /\ lpc' = "build"
            /\ UNCHANGED <<inRun, loopRes, payload>>
       \/ Unwind("datasource")
    /\ steps' = Append(steps, "readAll")
    /\ lateOnce' = IF inRun /\ ~running THEN lateOnce + 1 ELSE lateOnce
    /\ UNCHANGED <<factoryVars, reopened, histVars, mainVars, alive, sockVars, callVars, sendVars, cfgVars, running,
                   rChecks, rOnce, rSleeps, rSlept, rSends, rSent, firstSaw,
                   lateSleeps, closedOnce>>

\* runOnce 2) buildJsonPayload(values)
Build ==
    /\ lpc = "build"
    /\ \E epoch \in Times : payload' = buildJsonPayload(values, epoch)
    /\ lpc' = "call_send"
    /\ steps' = Append(steps, "serialize")
    /\ UNCHANGED <<factoryVars, reopened, histVars, mainVars, alive, sockVars, callVars, sendVars, cfgVars, running,
                   inRun, loopRes, values, runVars, closedOnce>>

\* a run that logs a sendString that raised and carries on with its sleep
CallSendRunGoesOn ==
    /\ lpc = "call_send"
    /\ sendString(tx, payload)
    /\ steps' = Append(steps, "sendString")
    /\ rSends' = IF inRun THEN rSends + 1 ELSE rSends
    /\ IF call'.status = "raised"
       THEN IF inRun
            THEN /\ lpc' = "sleep"
                 /\ values' = EmptyMap
                 /\ payload' = <<>>
                 /\ UNCHANGED <<inRun, loopRes>>
            ELSE Unwind(call'.what)
       ELSE /\ lpc' = "sending"
            /\ UNCHANGED <<inRun, loopRes, values, payload>>
    /\ UNCHANGED <<factoryVars, reopened, histVars, mainVars, alive, cfgVars, running, rChecks, rOnce, rSleeps, rSlept,
                   rSent, firstSaw, lateOnce, lateSleeps, closedOnce>>

\* runOnce 3) transport_.sendString(payload): the call
CallSend ==
    /\ lpc = "call_send"
    /\ sendString(tx, payload)
    /\ steps' = Append(steps, "sendString")
    /\ rSends' = IF inRun THEN rSends + 1 ELSE rSends
    /\ IF call'.status = "raised"
       THEN Unwind(call'.what)
       ELSE /\ lpc' = "sending"
            /\ UNCHANGED <<inRun, loopRes, values, payload>>
    /\ UNCHANGED <<factoryVars, reopened, histVars, mainVars, alive, cfgVars, running, rChecks, rOnce, rSleeps, rSlept,
                   rSent, firstSaw, lateOnce, lateSleeps, closedOnce>>

\* runOnce 3) transport_.sendString(payload): the send loop with return r
SendingStep(r) ==
    /\ lpc = "sending"
    /\ Sending(tx)
    /\ SendStep(tx, r)
    /\ rSent' = IF inRun /\ call'.status = "returned" THEN rSent + 1 ELSE rSent
    /\ CASE call'.status = "raised" -> Unwind(call'.what)
         [] call'.status = "returned" -> TickDone
         [] OTHER -> UNCHANGED <<lpc, inRun, loopRes, values, payload>>
    /\ UNCHANGED <<factoryVars, reopened, histVars, mainVars, alive, cfgVars, running, rChecks, rOnce, rSleeps, rSlept,
                   rSends, firstSaw, lateOnce, lateSleeps, closedOnce, steps>>

LSend == \E r \in OsSend(tx, sLeft) : SendingStep(r)

\* a loop that goes from the sleep straight into the next runOnce
SleepSkipsCheck ==
    /\ lpc = "sleep"
    /\ rSleeps' = rSleeps + 1
    /\ rSlept' = rSlept + intervalSeconds_
    /\ lateSleeps' = IF running THEN lateSleeps ELSE lateSleeps + 1
    /\ IF rOnce < MaxTicks
       THEN lpc' = "read" /\ rOnce' = rOnce + 1 /\ steps' = <<>>
       ELSE lpc' = "run_check" /\ UNCHANGED <<rOnce, steps>>
    /\ UNCHANGED <<factoryVars, reopened, histVars, mainVars, alive, sockVars, callVars, sendVars, cfgVars, running,
                   inRun, loopRes, values, payload, rChecks, rSends,
                   rSent, firstSaw, lateOnce, closedOnce>>

\* run: sleep_for(seconds(intervalSeconds_)) returns
Sleep ==
    /\ lpc = "sleep"
    /\ rSleeps' = rSleeps + 1
    /\ rSlept' = rSlept + intervalSeconds_
    /\ lateSleeps' = IF running THEN lateSleeps ELSE lateSleeps + 1
    /\ lpc' = "run_check"
    /\ UNCHANGED <<factoryVars, reopened, histVars, mainVars, alive, sockVars, callVars, sendVars, cfgVars, running,
                   inRun, loopRes, values, payload, steps, rChecks, rOnce, rSends,
                   rSent, firstSaw, lateOnce, closedOnce>>

\* another thread clears the flag
SetStop ==
    /\ running
    /\ running' = FALSE
    /\ UNCHANGED <<factoryVars, reopened, histVars, mainVars, alive, sockVars, callVars, sendVars, cfgVars,
                   lpc, inRun, loopRes, values, payload, steps, runVars, closedOnce>>

LoopInit ==
    /\ FactoryIdle
    /\ SockInit
    /\ LoopNew
    /\ \A o \in Objs \ {tx} : host_[o] = <<"h">>
    /\ MainUnused

LoopNext ==
    \/ Construct
    \/ LConnect \/ LClose \/ LRunOnce \/ LRun
    \/ RunCheck \/ ReadAll \/ Build \/ CallSend \/ LSend \/ Sleep
    \/ SetStop \/ PeerClose

LoopSpec == LoopInit /\ [][LoopNext]_vars

\* the thread inside the Sensor keeps running; interruptions do not recur forever
Worker ==
    \/ RunCheck \/ ReadAll \/ Build \/ CallSend \/ Sleep
    \/ \E r \in OsSend(tx, sLeft) : r.errno # "EINTR" /\ SendingStep(r)

LoopLiveSpec == LoopSpec /\ WF_vars(Worker)

----------------------------------------------------------------------------
(* Claims about the Sensor's loop *)

RunReturned == lpc = "idle" /\ loopRes.op = "run" /\ loopRes.status = "returned"
InTick == lpc \in {"read", "build", "call_send", "sending", "sleep"}

\* C1: once the flag is cleared, a run in progress returns (each step of
\* runOnce and each sleep ending); and a run that returns normally after its
\* first look at the flag saw it set has had at least one sendString return
\* normally.
C1_RunStopsAndSent ==
    /\ ((inRun /\ ~running) ~> ~inRun)
    /\ []((RunReturned /\ firstSaw = "go") => rSent >= 1 /\ rSent = rOnce)

\* a run stopped by the other thread after its first tick was sent
C1_Witness ==
    /\ RunReturned /\ firstSaw = "go" /\ ~running
    /\ rOnce = 1 /\ rSent = 1 /\ call.op = "send" /\ call.status = "returned"

\* C2: run looks at the flag before every iteration and an iteration is one
\* runOnce followed by one sleep of intervalSeconds_: checks, runOnce calls
\* and sleeps advance in lockstep, and a run that finds the flag cleared at
\* its first look returns with no runOnce and no send.
C2_CheckOnceSleepLockstep ==
    /\ (lpc = "run_check" => rChecks = rOnce /\ rSleeps = rOnce)
    /\ ((inRun /\ InTick) => rChecks = rOnce /\ rSleeps = rOnce - 1)
    /\ (RunReturned => rChecks = rOnce + 1 /\ rSleeps = rOnce)
    /\ (inRun \/ RunReturned => rSlept = rSleeps * intervalSeconds_ /\ rSends <= rOnce)
    /\ ((RunReturned /\ firstSaw = "stop") =>
           rOnce = 0 /\ rSends = 0 /\ rSleeps = 0 /\ call = NoCall /\ sCalls = 0)

\* a run of two full ticks on an established connection, then stopped
C2_Witness ==
    /\ RunReturned /\ rOnce = MaxTicks /\ rSleeps = MaxTicks /\ rSent = MaxTicks
    /\ rChecks = MaxTicks + 1 /\ intervalSeconds_ = 2

\* C7 as claimed: once close() has been called on the Sensor, its connection
\* is never established again.
C7_Original == closedOnce => fd_[tx] < 0

\* C7 amended: close() leaves the connection not established, and it stays
\* so until connect() is called on the Sensor again: runOnce and run never
\* establish it, a later connect() does.
C7_ClosedUntilConnect ==
    /\ [](loopRes.op = "close" => fd_[tx] < 0)
    /\ [][(fd_[tx] < 0 /\ fd_'[tx] >= 0) => loopRes'.op = "connect"]_vars

\* after close on an established connection, a runOnce was refused and the
\* connection is still not established
C7_Witness ==
    /\ closedOnce /\ life[tx] = "closed" /\ fd_[tx] < 0
    /\ loopRes.op = "runOnce" /\ loopRes.status = "raised"

\* C15: a connect() of the Sensor that fails (getaddrinfo fails, every
\* candidate fails, or the host is empty) is raised to the caller and leaves
\* the socket and the Sensor as they were: fd_ still unset, no descriptor
\* left open, host and configuration untouched; a sendString that follows
\* raises "not connected" without a ::send call.
C15_FailedConnectLeavesState ==
    /\ []((loopRes.op = "connect" /\ loopRes.status = "raised") =>
             ~isConnected(tx) /\ (\A o \in Objs : fd_[o] >= 0 <=> life[o] = "open"))
    /\ [][(call'.op = "connect" /\ call'.status = "raised") =>
             /\ loopRes'.op = "connect" /\ loopRes'.status = "raised"
             /\ loopRes'.what = call'.what
             /\ fd_' = fd_ /\ fd_[tx] < 0
             /\ osOpen' = osOpen /\ host_' = host_ /\ badClose' = badClose
             /\ cfgVars' = cfgVars /\ lpc' = lpc /\ inRun' = inRun]_vars
    /\ [][(life[tx] = "failed" /\ lpc = "call_send" /\ lpc' # lpc) =>
             /\ loopRes'.status = "raised"
             /\ loopRes'.what = NotConnectedMsg(tx)
             /\ sCalls' = 0 /\ fd_' = fd_]_vars

\* every candidate of a datagram connect failed
C15_Witness ==
    /\ loopRes.op = "connect" /\ loopRes.status = "raised" /\ tx = "u1"
    /\ resolved.gai = "ok" /\ Len(resolved.cands) = MaxCand
    /\ life[tx] = "failed" /\ fd_[tx] < 0 /\ osOpen = {}

\* C19: the constructor refuses an empty sensorId and an intervalSeconds
\* that is zero or negative with an exception, having called neither the
\* data source nor the transport; a Sensor that exists has a non-empty
\* sensorId_ and intervalSeconds_ > 0, both as configured, and no operation
\* ever changes them.
C19_ConfigValidatedAndKept ==
    /\ [][(lpc = "new" /\ lpc' # "new") =>
             /\ IF empty(config_.sensorId) \/ config_.intervalSeconds <= 0
                THEN /\ lpc' = "none"
                     /\ loopRes'.op = "Sensor" /\ loopRes'.status = "raised"
                ELSE /\ lpc' = "idle"
                     /\ loopRes'.op = "Sensor" /\ loopRes'.status = "returned"
             /\ call' = NoCall /\ trace' = <<>> /\ sCalls' = 0
             /\ osOpen' = {} /\ fd_' = fd_
             /\ steps' = <<>> /\ values' = EmptyMap]_vars
    /\ [](lpc = "none" => call = NoCall /\ osOpen = {} /\ steps = <<>>)
    /\ [](lpc \notin {"new", "none"} =>
             /\ ~empty(sensorId_) /\ intervalSeconds_ > 0
             /\ sensorId_ = config_.sensorId
             /\ intervalSeconds_ = config_.intervalSeconds)
    /\ [][config_' = config_ /\ sensorId_' = sensorId_
             /\ intervalSeconds_' = intervalSeconds_]_vars

\* a configuration with an identifier and the interval 0 was refused
C19_Witness ==
    /\ lpc = "none" /\ loopRes.op = "Sensor" /\ loopRes.status = "raised"
    /\ loopRes.what = "Sensor: intervalSeconds must be > 0"
    /\ ~empty(config_.sensorId) /\ config_.intervalSeconds = 0

\* C20: a runOnce calls readAll, then buildJsonPayload, then sendString, in
\* that order, each at most once and readAll exactly once; what is sent is
\* the payload built from the values read in this tick; and in a run every
\* sendString of an earlier tick has returned before the next tick reads.
C20_TickStepsInOrder ==
    LET Order == <<"readAll", "serialize", "sendString">> IN
    /\ steps = SubSeq(Order, 1, Len(steps))
    /\ (lpc = "read" => steps = <<>>)
    /\ (lpc = "build" => steps = <<"readAll">>)
    /\ (lpc = "call_send" =>
           /\ steps = <<"readAll", "serialize">>
           /\ DOMAIN payload[1].readings = DOMAIN values)
    /\ (lpc = "sending" => steps = Order /\ sData = payload /\ Sending(tx))
    /\ (lpc = "sleep" => steps = Order /\ call.status = "returned")
    /\ ((lpc = "idle" /\ loopRes.op = "runOnce") =>
           /\ Len(steps) >= 1
           /\ (loopRes.status = "returned" => steps = Order /\ call.status = "returned"))
    /\ (inRun =>
           /\ rSends - rSent \in {0, 1}
           /\ (lpc \in {"read", "build", "call_send", "sleep", "run_check"} =>
                  rSends = rSent)
           /\ rSends <= rOnce)

\* the second tick of a run is about to send: the first tick's send returned
C20_Witness ==
    /\ inRun /\ lpc = "call_send" /\ rOnce = 2 /\ rSent = 1 /\ rSends = 1
    /\ steps = <<"readAll", "serialize">> /\ DOMAIN values # {}

\* C21: when readAll raises, runOnce raises that exception (and so does run
\* when it made the call): readAll was called once and not again, neither
\* buildJsonPayload nor sendString is called, no ::send is issued, and the
\* socket is left as it was.
C21_SourceFailurePropagates ==
    /\ [][(lpc = "read" /\ steps' # steps) =>
             /\ steps' = <<"readAll">>
             /\ lpc' \in {"build", "idle"}
             /\ (lpc' = "idle" =>
                    /\ loopRes' = LoopResult(TopOp, "raised", "datasource")
                    /\ ~inRun')
             /\ call' = call /\ sendVars' = sendVars /\ sockVars' = sockVars
             /\ rSends' = rSends /\ rSent' = rSent]_vars
    /\ []((lpc = "idle" /\ loopRes.status = "raised" /\ loopRes.what = "datasource") =>
             /\ steps = <<"readAll">>
             /\ rSends = rSent
             /\ call.status # "running"
             /\ (loopRes.op = "runOnce" => call = NoCall /\ sCalls = 0))

\* the data source failed in the second tick of a run on an established
\* connection
C21_Witness ==
    /\ lpc = "idle" /\ loopRes = LoopResult("run", "raised", "datasource")
    /\ rOnce = 2 /\ rSent = 1 /\ rSends = 1 /\ isConnected(tx)

\* C22: when Sensor::connect returns normally the transport is connected;
\* Sensor::close always returns, never raises, leaves it not connected and
\* closes no descriptor twice, whether it is called before any connect,
\* after one, or repeatedly.
C22_ConnectCloseState ==
    /\ []((loopRes.op = "connect" /\ loopRes.status = "returned") =>
             isConnected(tx) /\ fd_[tx] \in osOpen)
    /\ []((loopRes.op = "close") =>
             loopRes.status = "returned" /\ ~isConnected(tx) /\ osOpen = {})
    /\ [](~badClose)
    /\ [][(lpc = "idle" /\ closedOnce /\ loopRes.op = "close" /\ loopRes'.op = "close") =>
             (sockVars' = sockVars /\ loopRes'.status = "returned")]_vars

\* close was called on a Sensor that was never connected
C22_Witness ==
    /\ loopRes.op = "close" /\ loopRes.status = "returned"
    /\ life[tx] = "fresh" /\ closedOnce /\ trace = <<>>

----------------------------------------------------------------------------
(* PayloadSpec: buildJsonPayload over many configurations and ReadingSets *)

PayloadNames ==
    {FrameWidth, Brightness, Foo, Channels, Size, Luma, HeightBytes, ChannelsSize,
     BytesLuma}

\* the value the data source reports for a metric, in thousandths
PayloadValue(n) == IF n = FrameWidth THEN 640000 ELSE 1000 * Len(n) + 5

\* ReadingSets of up to MaxMetrics metrics
MaxMetrics == 2

PayloadReadings ==
    { [n \in S |-> PayloadValue(n)] :
        S \in {T \in SUBSET PayloadNames : Cardinality(T) <= MaxMetrics} }

\* SensorConfigs with and without units and metadata; one configures a unit
\* for names the heuristics know (brightness, channels_size) and one for a
\* name they do not (foo)
PayloadConfigs ==
    { [sensorId |-> <<"s", "1">>, intervalSeconds |-> 1, units |-> u, metadata |-> m] :
        u \in { EmptyMap,
                [n \in {FrameWidth} |-> "px"],
                [n \in {Brightness, ChannelsSize, Foo} |->
                    IF n = Brightness THEN "lux"
                    ELSE IF n = ChannelsSize THEN "kB" ELSE "widgets"] },
        m \in { EmptyMap,
                [k \in {"environment"} |-> "unit-test"],
                [k \in {"environment", "site"} |-> "lab"] } }

\* a constructed Sensor inside runOnce whose readAll has just returned
PayloadInit ==
    /\ FactoryIdle
    /\ SockInit
    /\ MainUnused
    /\ config_ \in PayloadConfigs
    /\ sensorId_ = config_.sensorId
    /\ intervalSeconds_ = config_.intervalSeconds
    /\ tx \in Objs
    /\ \A o \in Objs \ {tx} : host_[o] = <<"h">>
    /\ running = TRUE
    /\ lpc = "build"
    /\ inRun = FALSE
    /\ loopRes = NoLoopRes
    /\ values \in PayloadReadings
    /\ payload = <<>>
    /\ steps = <<"readAll">>
    /\ rChecks = 0
    /\ rOnce = 0
    /\ rSleeps = 0
    /\ rSlept = 0
    /\ rSends = 0
    /\ rSent = 0
    /\ firstSaw = "none"
    /\ lateOnce = 0
    /\ lateSleeps = 0
    /\ closedOnce = FALSE

PayloadNext == Build

PayloadSpec == PayloadInit /\ [][PayloadNext]_vars

----------------------------------------------------------------------------
(* Claims about the payload *)

\* which of the heuristics' words each metric name of PayloadNames contains
Mentions(n) ==
    CASE n = FrameWidth -> {"width"}
      [] n = Brightness -> {"brightness"}
      [] n = Foo -> {}
      [] n = Channels -> {"channels"}
      [] n = Size -> {"size"}
      [] n = Luma -> {"luma"}
      [] n = HeightBytes -> {"height", "bytes"}
      [] n = ChannelsSize -> {"channels", "size"}
      [] n = BytesLuma -> {"bytes", "luma"}

\* the first matching heuristic in the documented order
HeuristicUnit(n) ==
    IF Mentions(n) \cap {"width", "height"} # {} THEN "pixels"
    ELSE IF "channels" \in Mentions(n) THEN "count"
    ELSE IF Mentions(n) \cap {"bytes", "size"} # {} THEN "bytes"
    ELSE IF Mentions(n) \cap {"brightness", "luma"} # {} THEN "intensity"
    ELSE "unknown"

Built == lpc \in {"call_send", "sending"}

\* C26: the unit written for each metric is the configured unit when the
\* metric is a key of the configured units; otherwise the first matching
\* heuristic in the order width/height, channels, bytes/size,
\* brightness/luma; otherwise "unknown"
C26_UnitConfiguredThenHeuristic ==
    Built =>
        \A n \in DOMAIN values :
            payload[1].readings[n].unit =
                IF n \in DOMAIN config_.units THEN config_.units[n] ELSE HeuristicUnit(n)

\* a payload was built for a metric whose configured unit differs from its
\* heuristic one and for an unconfigured metric that two heuristics match
C26_Witness ==
    /\ Built
    /\ \E n \in DOMAIN values :
          n \in DOMAIN config_.units /\ config_.units[n] # HeuristicUnit(n)
          /\ HeuristicUnit(n) # "unknown"
    /\ \E n \in DOMAIN values :
          n \notin DOMAIN config_.units /\ Cardinality(Mentions(n)) = 2

\* C27: every payload sent by runOnce has sensor_id equal to the configured
\* identifier, a timestamp_ms, and a readings object keyed by exactly the
\* metrics read in that tick, also for the empty ReadingSet
C27_ReadingsAlwaysPresent ==
    Built =>
        /\ {"sensor_id", "timestamp_ms", "readings"} \subseteq payload[1].keys
        /\ payload[1].sensor_id = config_.sensorId
        /\ DOMAIN payload[1].readings = DOMAIN values

\* C28: the payload has a metadata object exactly when the configured
\* metadata map is non-empty, and then it equals the configured map
C28_MetadataIffConfigured ==
    Built =>
        /\ "metadata" \in payload[1].keys <=> DOMAIN config_.metadata # {}
        /\ "metadata" \in payload[1].keys => payload[1].metadata = config_.metadata

\* a payload was built under a configuration with two metadata entries
C28_Witness ==
    /\ Built
    /\ Cardinality(DOMAIN config_.metadata) = 2
    /\ "metadata" \in payload[1].keys

----------------------------------------------------------------------------
(* Claims about connecting again *)

\* C25: a socket that was connected and then closed can be connected again
\* on the same object: the connect() that follows a close() goes to the OS
\* again and, when it returns, the object holds a new open descriptor on a
\* healthy link and isConnected() is true; a send on it that returns has
\* delivered exactly the payload.
C25_ReconnectAfterClose ==
    /\ [](\A o \in reopened : isConnected(o) /\ fd_[o] \in osOpen)
    /\ []((call.op = "send" /\ call.status = "returned" /\ call.obj \in reopened) =>
             sAccepted = sData /\ call.ret = Len(sData))
    /\ [][\A o \in Objs :
            (o \in reopened' \ reopened) =>
                /\ fd_[o] < 0 /\ fd_'[o] >= 0
                /\ fd_'[o] \in osOpen' \ (osOpen \cup peerGone')
                /\ trace' # <<>> /\ trace'[1].c = "getaddrinfo"]_vars

\* a datagram socket that was closed and connected again has sent a full
\* payload
C25_Witness ==
    /\ "u1" \in reopened /\ isConnected("u1")
    /\ call.op = "send" /\ call.obj = "u1" /\ call.status = "returned"
    /\ Len(sData) = MaxLen /\ sAccepted = sData

----------------------------------------------------------------------------
(* DatagramSpec: one UdpSocket and the datagrams its sends put on the wire *)

\* number of sendString calls made on the socket
MaxSends == 3

\* a UdpSocket that has been constructed, and nothing else
DatagramInit ==
    /\ FactoryIdle
    /\ SensorUnused
    /\ MainUnused
    /\ NoHistory
    /\ alive = {"u1"}
    /\ host_ = [o \in Objs |-> <<"h">>]
    /\ fd_ = [o \in Objs |-> -1]
    /\ osOpen = {}
    /\ peerGone = {}
    /\ badClose = FALSE
    /\ life = [o \in Objs |-> "fresh"]
    /\ call = NoCall
    /\ trace = <<>>
    /\ resolved = NoResolution
    /\ sData = <<>>
    /\ sPtr = 0
    /\ sLeft = 0
    /\ sAccepted = <<>>
    /\ sCalls = 0
    /\ sEintr = 0
    /\ sLast = NoOsResult

\* what getaddrinfo gives the UdpSocket here: a failure, or one candidate
DgResolutions == {res \in Resolutions : Len(res.cands) <= 1}

\* connect() is called on the UdpSocket
DgConnect ==
    \E res \in DgResolutions :
        /\ ~Busy
        /\ connect("u1", res)
        /\ NoSend
        /\ UNCHANGED <<factoryVars, alive, loopVars, reopened, histVars, mainVars>>

\* sendString(p) is called on the UdpSocket
DgSend ==
    \E p \in Payloads :
        /\ ~Busy
        /\ nCalls < MaxSends
        /\ sendString("u1", p)
        /\ nCalls' = nCalls + 1
        /\ UNCHANGED <<factoryVars, alive, loopVars, reopened, dgrams, done, camVars,
                       mainVars>>

\* one ::send call of UdpSocket::send returns r: a count r.n >= 0 means the
\* OS has queued a datagram of the first r.n bytes it was handed
DgStep ==
    \E r \in OsSend("u1", sLeft) :
        /\ Sending("u1")
        /\ SendStep("u1", r)
        /\ dgrams' = IF r.n >= 0
                     THEN Append(dgrams, [id |-> nCalls, bytes |-> Taken(sData, sPtr, r.n)])
                     ELSE dgrams
        /\ done' = IF call'.status = "returned"
                   THEN Append(done, [id |-> nCalls, data |-> sData, ret |-> call'.ret])
                   ELSE done
        /\ UNCHANGED <<factoryVars, alive, loopVars, reopened, nCalls, camVars, mainVars>>

DatagramNext == DgConnect \/ Close \/ DgSend \/ DgStep \/ PeerClose

DatagramSpec == DatagramInit /\ [][DatagramNext]_vars

\* the datagrams that the send with number id put on the wire
DatagramsOf(id) == {j \in 1..Len(dgrams) : dgrams[j].id = id}

\* C29: N datagram sends that returned normally have put exactly N datagrams
\* on the wire, one per call and in the order of the calls, each carrying
\* exactly the bytes of its payload, and each call returned the payload's
\* length, 0 for an empty payload.
C29_OneDatagramPerSend ==
    /\ \A i \in 1..Len(done) :
          /\ done[i].ret = Len(done[i].data)
          /\ Cardinality(DatagramsOf(done[i].id)) = 1
          /\ \A j \in DatagramsOf(done[i].id) : dgrams[j].bytes = done[i].data
    /\ Cardinality(UNION {DatagramsOf(done[i].id) : i \in 1..Len(done)}) = Len(done)
    /\ \A i, k \in 1..Len(done) :
          i < k => \A j \in DatagramsOf(done[i].id), l \in DatagramsOf(done[k].id) : j < l

\* every send returned normally, one of them with an empty payload (return
\* value 0) and one with the longest payload
C29_Witness ==
    /\ Len(done) = MaxSends /\ Len(dgrams) = MaxSends
    /\ \E i \in 1..Len(done) : done[i].data = <<>> /\ done[i].ret = 0
    /\ \E i \in 1..Len(done) : Len(done[i].data) = MaxLen /\ done[i].ret = MaxLen

----------------------------------------------------------------------------
(* ConfigLoader: the JSON documents and the two load functions *)

\* JSON values: a missing key, a string, an integer, an object, or a value
\* of some other type
\* (t: the type; s, o: the value of a string, an object; an integer is the
\* 64-bit number hi * 2^32 + n, with n its low 32 bits read as an int32_t)
Absent == [t |-> "absent", s |-> <<>>, n |-> 0, hi |-> 0, o |-> <<>>]
Other == [t |-> "other", s |-> <<>>, n |-> 0, hi |-> 0, o |-> <<>>]
JStr(x) == [t |-> "string", s |-> x, n |-> 0, hi |-> 0, o |-> <<>>]
JInt(x) == [t |-> "int", s |-> <<>>, n |-> x, hi |-> 0, o |-> <<>>]
JBig(h, x) == [t |-> "int", s |-> <<>>, n |-> x, hi |-> h, o |-> <<>>]
JObj(x) == [t |-> "object", s |-> <<>>, n |-> 0, hi |-> 0, o |-> x]

\* json <= 0: the comparison is made on the 64-bit number
JLeqZero(f) == f.hi < 0 \/ (f.hi = 0 /\ f.n <= 0)

\* json::get<int32_t>(), also the implicit conversion to an int32_t
\* parameter: static_cast of the 64-bit number, which keeps its low 32 bits
getInt32(f) == f.n

Loaded(c) == [status |-> "ok", cfg |-> c, err |-> "none"]
LoadError(msg) == [status |-> "error", cfg |-> <<>>, err |-> msg]

\* readStringMapIfPresent: "ok", or the error it throws
stringMapError(field, name) ==
    IF field.t = "absent" THEN "ok"
    ELSE IF field.t # "object" THEN "ConfigLoader: '" \o name \o "' must be an object"
    ELSE IF \E k \in DOMAIN field.o : field.o[k].t # "string"
         THEN "ConfigLoader: '" \o name \o ".<key>' must be a string"
    ELSE "ok"

\* readStringMapIfPresent: the map it leaves in outputMap
stringMap(field) ==
    IF field.t = "absent" THEN EmptyMap ELSE [k \in DOMAIN field.o |-> field.o[k].s]

\* ConfigLoader::loadSensorConfig
loadSensorConfig(j) ==
    IF j.sensor_id.t # "string"
    THEN LoadError("SensorConfig: missing or invalid 'sensor_id'")
    ELSE IF j.interval_seconds.t \notin {"absent", "int"}
    THEN LoadError("SensorConfig: 'interval_seconds' must be an integer")
    ELSE IF j.interval_seconds.t = "int" /\ JLeqZero(j.interval_seconds)
    THEN LoadError("SensorConfig: 'interval_seconds' must be > 0")
    ELSE IF stringMapError(j.units, "units") # "ok"
    THEN LoadError(stringMapError(j.units, "units"))
    ELSE IF stringMapError(j.metadata, "metadata") # "ok"
    THEN LoadError(stringMapError(j.metadata, "metadata"))
    ELSE Loaded([sensorId |-> j.sensor_id.s,
                 intervalSeconds |-> IF j.interval_seconds.t = "int"
                                     THEN getInt32(j.interval_seconds) ELSE 1,
                 units |-> stringMap(j.units),
                 metadata |-> stringMap(j.metadata)])

\* jsonObject["tcp"] / jsonObject["udp"]
Section(j, name) == IF j.key = name THEN j.section ELSE Absent

\* ConfigLoader::loadTransportConfig, the branch of one kind
loadEndpoint(j, name) ==
    LET sec == Section(j, name) IN
    IF sec.t # "object"
    THEN LoadError("TransportConfig: missing '" \o name \o "' object")
    ELSE IF sec.o.host.t # "string"
    THEN LoadError("TransportConfig: missing or invalid '" \o name \o ".host'")
    ELSE IF sec.o.port.t # "int"
    THEN LoadError("TransportConfig: missing or invalid '" \o name \o ".port'")
    ELSE IF ~isValidPortRange(getInt32(sec.o.port))
    THEN LoadError("TransportConfig: '" \o name \o ".port' out of range (1..65535)")
    ELSE Loaded([kind |-> j.kind.s, host |-> sec.o.host.s, port |-> ToU16(getInt32(sec.o.port))])

\* ConfigLoader::loadTransportConfig
loadTransportConfig(j) ==
    IF j.kind.t # "string"
    THEN LoadError("TransportConfig: missing or invalid 'kind'")
    ELSE IF j.kind.s = <<"t", "c", "p">> THEN loadEndpoint(j, "tcp")
    ELSE IF j.kind.s = <<"u", "d", "p">> THEN loadEndpoint(j, "udp")
    ELSE LoadError("TransportConfig: unsupported kind")

----------------------------------------------------------------------------
(* LoaderSpec: main() from the configuration files to the started thread *)

GoodSensorJson ==
    [sensor_id |-> JStr(<<"s", "1">>), interval_seconds |-> JInt(1),
     units |-> JObj([n \in {FrameWidth} |-> JStr(<<"p", "x">>)]),
     metadata |-> JObj([k \in {"environment"} |-> JStr(<<"l", "a", "b">>)])]

GoodTransportJson ==
    [kind |-> JStr(<<"t", "c", "p">>), key |-> "tcp",
     section |-> JObj([host |-> JStr(<<"h">>), port |-> JInt(9000)])]

\* sensor configuration files: each key missing, of the wrong type, or
\* present with a value in or out of range
SensorDocs ==
    [sensor_id : {Absent, Other, JStr(<<>>), JStr(<<"s", "1">>)},
     interval_seconds : {Absent, Other, JInt(-5), JInt(0), JInt(1), JInt(5), JBig(1, 0)},
     units : {Absent, Other, JObj([n \in {FrameWidth} |-> Other]),
              JObj([n \in {FrameWidth} |-> JStr(<<"p", "x">>)])},
     metadata : {Absent, JObj([k \in {"environment"} |-> JStr(<<"l", "a", "b">>)])}]

\* transport configuration files: the kind and one section under the key
\* "tcp" or "udp"
TransportDocs ==
    [kind : {Absent, Other, JStr(<<>>), JStr(<<"t", "c", "p">>), JStr(<<"u", "d", "p">>),
             JStr(<<"T", "C", "P">>), JStr(<<"b", "l", "e">>)},
     key : {"tcp", "udp"},
     section : {Absent, Other} \cup
               {JObj([host |-> h, port |-> q]) :
                  h \in {Absent, Other, JStr(<<>>), JStr(<<"h">>)},
                  q \in {Absent, Other, JInt(-1), JInt(0), JInt(1), JInt(65535),
                         JInt(65536), JInt(70000), JBig(1, 1)}}]

\* main() has installed its handlers and is about to load the two files; no
\* transport and no Sensor exist yet.  One of the files varies at a time.
LoaderInit ==
    /\ FactoryIdle
    /\ SockInit
    /\ NoHistory
    /\ host_ = [o \in Objs |-> <<"h">>]
    /\ \/ sensorJson \in SensorDocs /\ transportJson = GoodTransportJson
       \/ sensorJson = GoodSensorJson /\ transportJson \in TransportDocs
    /\ sensorCfg = <<>>
    /\ spc = "load_sensor"
    /\ runDuration = 0
    /\ elapsed = 0
    /\ stops = {}
    /\ config_ = <<>>
    /\ sensorId_ = <<>>
    /\ intervalSeconds_ = 0
    /\ tx = "t1"
    /\ running = TRUE
    /\ lpc = "none"
    /\ inRun = FALSE
    /\ loopRes = NoLoopRes
    /\ values = <<>>
    /\ payload = <<>>
    /\ steps = <<>>
    /\ rChecks = 0
    /\ rOnce = 0
    /\ rSleeps = 0
    /\ rSlept = 0
    /\ rSends = 0
    /\ rSent = 0
    /\ firstSaw = "none"
    /\ lateOnce = 0
    /\ lateSleeps = 0
    /\ closedOnce = FALSE

\* everything main() does not touch while it sets up
SetupUntouched ==
    UNCHANGED <<alive, sockVars, callVars, sendVars, reopened, histVars, running,
                runDuration, elapsed, stops, sensorJson, transportJson>>

\* const auto sensorCfg = ConfigLoader::loadSensorConfig(sensorCfgPath)
LoadSensor ==
    /\ spc = "load_sensor"
    /\ LET r == loadSensorConfig(sensorJson) IN
         IF r.status = "ok"
         THEN sensorCfg' = r.cfg /\ spc' = "load_transport"
         ELSE sensorCfg' = sensorCfg /\ spc' = "failed"
    /\ SetupUntouched
    /\ UNCHANGED <<factoryVars, cfgVars, lpc, inRun, loopRes, values, payload, steps,
                   runVars, closedOnce>>

\* const auto transportCfg = ConfigLoader::loadTransportConfig(transportCfgPath)
LoadTransport ==
    /\ spc = "load_transport"
    /\ LET r == loadTransportConfig(transportJson) IN
         IF r.status = "ok"
         THEN cfg' = r.cfg /\ spc' = "make"
         ELSE cfg' = cfg /\ spc' = "failed"
    /\ SetupUntouched
    /\ UNCHANGED <<made, sensorCfg, cfgVars, lpc, inRun, loopRes, values, payload, steps,
                   runVars, closedOnce>>

\* auto transport = TransportFactory::make(transportCfg)
MainMake == spc = "make" /\ Make

\* Sensor sensor{sensorCfg, ...}: the member initializers
NewSensor ==
    /\ spc = "make"
    /\ made.status = "ok"
    /\ config_' = sensorCfg
    /\ sensorId_' = sensorCfg.sensorId
    /\ intervalSeconds_' = sensorCfg.intervalSeconds
    /\ lpc' = "new"
    /\ spc' = "construct"
    /\ SetupUntouched
    /\ UNCHANGED <<factoryVars, sensorCfg, tx, inRun, loopRes, values, payload, steps,
                   runVars, closedOnce>>

\* Sensor sensor{sensorCfg, ...}: the constructor's body
MainConstruct == spc = "construct" /\ Construct

\* std::thread sensorThread(...): the Sensor's thread starts, main goes on to
\* its loop
StartThread ==
    /\ spc = "construct"
    /\ lpc = "idle"
    /\ spc' = "loop"
    /\ loopRes' = NoLoopRes
    /\ SetupUntouched
    /\ UNCHANGED <<factoryVars, sensorCfg, cfgVars, lpc, inRun, values, payload, steps,
                   runVars, closedOnce>>

\* catch (const std::exception&) in main: return EXIT_FAILURE
MainCatch ==
    /\ \/ spc = "make" /\ made.status = "error"
       \/ spc = "construct" /\ lpc = "none" /\ loopRes.status = "raised"
    /\ spc' = "failed"
    /\ SetupUntouched
    /\ UNCHANGED <<factoryVars, sensorCfg, cfgVars, lpc, inRun, loopRes, values, payload,
                   steps, runVars, closedOnce>>

LoaderNext ==
    \/ LoadSensor \/ LoadTransport \/ MainMake \/ NewSensor \/ MainConstruct
    \/ StartThread \/ MainCatch

LoaderSpec == LoaderInit /\ [][LoaderNext]_vars

\* C30: every configuration the loader returns is accepted by the core: the
\* Sensor's constructor accepts what loadSensorConfig returned and
\* TransportFactory::make accepts what loadTransportConfig returned, so main
\* fails only inside the loader.
C30_LoadedConfigAccepted ==
    /\ made.status # "error"
    /\ loopRes.status # "raised"
    /\ spc = "failed" => made.status = "none" /\ lpc = "none" /\ loopRes = NoLoopRes

----------------------------------------------------------------------------
(* MainSpec: main() from the started thread to the end of the process: the  *)
(* Sensor's thread runs connect / run / close, the main thread watches the  *)
(* flag and the clock, a signal may arrive at any moment                    *)

\* the longest RUN_DURATION_SECONDS
MaxDuration == 1

\* what envOrDefaultInt returns: atoi of the variable, 0 when it is unset or
\* not a number
RunDurations == {-1, 0} \cup 1..MaxDuration

GoodUdpJson ==
    [kind |-> JStr(<<"u", "d", "p">>), key |-> "udp",
     section |-> JObj([host |-> JStr(<<"h">>), port |-> JInt(9000)])]

\* the thread has just been started on a Sensor built from valid files
MainInit ==
    /\ SockInit
    /\ host_ = [o \in Objs |-> <<"h">>]
    /\ tx \in Objs
    /\ sensorJson = GoodSensorJson
    /\ transportJson = (IF isTcp(tx) THEN GoodTransportJson ELSE GoodUdpJson)
    /\ sensorCfg = loadSensorConfig(sensorJson).cfg
    /\ cfg = loadTransportConfig(transportJson).cfg
    /\ made = make(cfg)
    /\ config_ = sensorCfg
    /\ sensorId_ = sensorCfg.sensorId
    /\ intervalSeconds_ = sensorCfg.intervalSeconds
    /\ spc = "loop"
    /\ runDuration \in RunDurations
    /\ elapsed = 0
    /\ stops = {}
    /\ running = TRUE
    /\ lpc = "idle"
    /\ inRun = FALSE
    /\ loopRes = NoLoopRes
    /\ values = <<>>
    /\ payload = <<>>
    /\ steps = <<>>
    /\ rChecks = 0
    /\ rOnce = 0
    /\ rSleeps = 0
    /\ rSlept = 0
    /\ rSends = 0
    /\ rSent = 0
    /\ firstSaw = "none"
    /\ lateOnce = 0
    /\ lateSleeps = 0
    /\ closedOnce = FALSE

\* ---- the Sensor's thread ----

\* sensor.connect()
WConnect == spc # "none" /\ loopRes = NoLoopRes /\ LConnect

\* sensor.run(running)
WRun == loopRes.op = "connect" /\ loopRes.status = "returned" /\ LRun

\* sensor.close() after run has returned
WClose == loopRes.op = "run" /\ loopRes.status = "returned" /\ LClose

\* a catch block that logs the exception and leaves the flag alone
WCatchKeepsFlag ==
    /\ lpc = "idle"
    /\ loopRes.status = "raised"
    /\ loopRes' = LoopResult("catch", "caught", loopRes.what)
    /\ UNCHANGED <<factoryVars, alive, sockVars, callVars, sendVars, reopened, histVars,
                   cfgVars, lpc, inRun, values, payload, steps, runVars, closedOnce,
                   running, stops,
                   spc, runDuration, elapsed, sensorJson, transportJson, sensorCfg>>

\* catch (const std::exception&): running = false
WCatch ==
    /\ lpc = "idle"
    /\ loopRes.status = "raised"
    /\ running' = FALSE
    /\ stops' = stops \cup {"worker"}
    /\ loopRes' = LoopResult("catch", "caught", loopRes.what)
    /\ UNCHANGED <<factoryVars, alive, sockVars, callVars, sendVars, reopened, histVars,
                   cfgVars, lpc, inRun, values, payload, steps, runVars, closedOnce,
                   spc, runDuration, elapsed, sensorJson, transportJson, sensorCfg>>

\* a catch block that only clears the flag and returns
WCatchNoClose ==
    /\ loopRes.op = "catch"
    /\ lpc = "idle"
    /\ loopRes' = LoopResult("close", "returned", "none")
    /\ UNCHANGED <<factoryVars, alive, sockVars, callVars, sendVars, reopened, histVars,
                   mainVars, cfgVars, running, lpc, inRun, values, payload, steps,
                   runVars, closedOnce>>

\* catch (const std::exception&): sensor.close()
WCatchClose == loopRes.op = "catch" /\ LClose

\* the thread's function has returned
WorkerDone == lpc = "idle" /\ loopRes.op = "close"

\* ---- the main thread ----

MainUntouched ==
    UNCHANGED <<factoryVars, alive, sockVars, callVars, sendVars, reopened, histVars,
                cfgVars, lpc, inRun, loopRes, values, payload, steps, runVars,
                closedOnce, runDuration, sensorJson, transportJson, sensorCfg>>

\* while (running)
SupCheck ==
    /\ spc = "loop"
    /\ spc' = IF running THEN "limit" ELSE "join"
    /\ UNCHANGED <<running, elapsed, stops>>
    /\ MainUntouched

\* a main loop that reports the expired limit and leaves the flag alone
SupLimitNoStop ==
    /\ spc = "limit"
    /\ spc' = "sleep"
    /\ UNCHANGED <<running, elapsed, stops>>
    /\ MainUntouched

\* if (runDuration > 0 && now() - startTime > seconds(runDuration)) running = false
SupLimit ==
    /\ spc = "limit"
    /\ spc' = "sleep"
    /\ IF runDuration > 0 /\ elapsed > runDuration
       THEN running' = FALSE /\ stops' = stops \cup {"limit"}
       ELSE UNCHANGED <<running, stops>>
    /\ UNCHANGED elapsed
    /\ MainUntouched

\* the reading of the clock at which the model stops counting: one second
\* past the limit of this run
ClockCap == IF runDuration > 0 THEN runDuration + 1 ELSE 1

\* sleep_for(seconds(1)): the clock moves on by a second or more
SupSleep ==
    /\ spc = "sleep"
    /\ spc' = "loop"
    /\ \E d \in 1..2 :
          elapsed' = IF elapsed + d > ClockCap THEN ClockCap ELSE elapsed + d
    /\ UNCHANGED <<running, stops>>
    /\ MainUntouched

\* a main thread that goes on without waiting for the Sensor's thread
JoinNoWait ==
    /\ spc = "join"
    /\ spc' = "joined"
    /\ UNCHANGED <<running, elapsed, stops>>
    /\ MainUntouched

\* sensorThread.join(): returns once the thread's function has returned
Join ==
    /\ spc = "join"
    /\ WorkerDone
    /\ spc' = "joined"
    /\ UNCHANGED <<running, elapsed, stops>>
    /\ MainUntouched

\* the end of main's try block: the Sensor and with it the transport are
\* destroyed, the socket's destructor closes
Exit ==
    /\ spc = "joined"
    /\ spc' = "exit"
    /\ close(tx)
    /\ alive' = alive \ {tx}
    /\ call' = Returned("~", tx, 0)
    /\ NoSend
    /\ UNCHANGED <<factoryVars, reopened, histVars, loopVars, runDuration, elapsed,
                   stops, sensorJson, transportJson, sensorCfg>>

\* a handler that flips the flag instead of clearing it
SignalToggles ==
    /\ spc \notin {"none", "exit"}
    /\ "signal" \notin stops
    /\ running' = ~running
    /\ stops' = stops \cup {"signal"}
    /\ UNCHANGED spc
    /\ UNCHANGED elapsed
    /\ MainUntouched

\* handleSignal (SIGINT / SIGTERM): running = false
Signal ==
    /\ spc \notin {"none", "exit"}
    /\ "signal" \notin stops
    /\ running' = FALSE
    /\ stops' = stops \cup {"signal"}
    /\ UNCHANGED spc
    /\ UNCHANGED elapsed
    /\ MainUntouched

Supervisor == SupCheck \/ SupLimit \/ SupSleep \/ Join \/ Exit

MainNext ==
    \/ WConnect \/ WRun \/ WClose \/ WCatch \/ WCatchClose
    \/ RunCheck \/ ReadAll \/ Build \/ CallSend \/ LSend \/ Sleep
    \/ SupCheck \/ SupLimit \/ SupSleep \/ Join \/ Exit
    \/ Signal

MainSpec == MainInit /\ [][MainNext]_vars

\* both threads keep running; interruptions of a send do not recur forever
MainWorker == WConnect \/ WRun \/ WClose \/ WCatch \/ WCatchClose \/ Worker

MainLiveSpec == MainSpec /\ WF_vars(Supervisor) /\ WF_vars(MainWorker)

----------------------------------------------------------------------------
(* Claims about the two threads *)

\* the Sensor and its connection: everything but the flag
SensorState ==
    <<alive, sockVars, callVars, sendVars, cfgVars, lpc, inRun, loopRes, values,
      payload, steps, runVars, closedOnce>>

\* C23: while the Sensor's thread executes connect / run / close, the main
\* thread performs no operation on the Sensor or its connection: every step
\* of the main thread before the join and every signal leaves them as they
\* are, the steps of the Sensor's thread leave the main thread's state as it
\* is (the flag is the only thing both touch), and the main thread is past
\* the join, where it destroys the Sensor, only when the thread's function
\* has returned.
C23_SupervisorKeepsOff ==
    /\ [](spc \in {"joined", "exit"} => WorkerDone)
    /\ [][(spc' # spc /\ spc # "joined") => SensorState' = SensorState]_vars
    /\ [][("signal" \in stops' \ stops) => SensorState' = SensorState]_vars
    /\ [][(SensorState' # SensorState /\ spc # "joined") =>
             UNCHANGED <<spc, runDuration, elapsed>>]_vars

\* the Sensor's thread is inside a send of its second tick while the main
\* thread, having seen the flag set twice, sleeps
C23_Witness ==
    /\ lpc = "sending" /\ Sending(tx) /\ rOnce = 2
    /\ spc = "sleep" /\ elapsed >= 1 /\ running

\* C24: with a positive run duration the program terminates: the flag is
\* cleared, run returns, the connection is closed, the thread is joined and
\* main leaves; with a duration of 0 or less the main thread never clears the
\* flag, and as long as neither a signal nor a failure of the Sensor's thread
\* has cleared it the main thread stays in its loop.
C24_LimitStopsProgram ==
    /\ (runDuration > 0) ~> (spc = "exit")
    /\ [](spc = "exit" =>
             ~running /\ WorkerDone /\ closedOnce /\ fd_[tx] < 0 /\ osOpen = {})
    /\ [](runDuration <= 0 => "limit" \notin stops)
    /\ []((runDuration <= 0 /\ stops = {}) =>
             running /\ spc \in {"loop", "limit", "sleep"})
    /\ []((runDuration > 0 /\ "limit" \in stops) => elapsed > runDuration)

\* the longest limit expired on a connected Sensor and nothing else stopped
\* it: the thread closed the connection, main joined it and left
C24_Witness ==
    /\ spc = "exit" /\ runDuration = MaxDuration /\ stops = {"limit"}
    /\ life[tx] = "closed" /\ tx \notin alive /\ WorkerDone

----------------------------------------------------------------------------
(* Claims about the loader *)

\* a transport file as the loader is documented to want it
TransportDocValid(j) ==
    /\ j.kind.t = "string"
    /\ j.kind.s \in {<<"t", "c", "p">>, <<"u", "d", "p">>}
    /\ j.key = (IF j.kind.s = <<"t", "c", "p">> THEN "tcp" ELSE "udp")
    /\ j.section.t = "object"
    /\ j.section.o.host.t = "string"
    /\ j.section.o.port.t = "int"
    /\ j.section.o.port.hi = 0
    /\ j.section.o.port.n >= 1 /\ j.section.o.port.n <= 65535

\* main is past loadTransportConfig
PastLoadTransport ==
    /\ spc \notin {"load_sensor", "load_transport"}
    /\ loadSensorConfig(sensorJson).status = "ok"

\* C31: loadTransportConfig returns a configuration only when kind is exactly
\* "tcp" or "udp" and the matching section is an object with a string host
\* and an integer port in 1..65535, and then it is that kind, host and port;
\* for every other file it raises and returns nothing.
C31_TransportLoadedIffValid ==
    PastLoadTransport =>
        /\ cfg.kind # <<>> <=> TransportDocValid(transportJson)
        /\ cfg.kind # <<>> =>
              /\ cfg.kind = transportJson.kind.s
              /\ cfg.host = transportJson.section.o.host.s
              /\ cfg.port = transportJson.section.o.port.n

----------------------------------------------------------------------------
(* Claims about the running flag *)

\* the three places that store into the flag
Writers == {"signal", "limit", "worker"}

\* C37: the running flag is monotonic: it is true when the threads start,
\* every store into it stores false and is made by the signal handler, the
\* main loop's duration check or the catch block of the Sensor's thread, and
\* once it is false no step sets it back to true.
C37_FlagMonotonic ==
    /\ running = TRUE
    /\ [][~running => ~running']_vars
    /\ [][(running /\ ~running') => \E w \in Writers : stops' = stops \cup {w}]_vars
    /\ [][stops' # stops => ~running']_vars
    /\ [](running <=> stops = {})
    /\ [](stops \subseteq Writers)

\* all three have stored into the flag, and the Sensor's thread has not yet
\* finished
C37_Witness ==
    /\ ~running
    /\ stops = Writers
    /\ ~WorkerDone

----------------------------------------------------------------------------
(* Claims about the end of the Sensor's thread *)

\* C36: on every path by which the Sensor's thread finishes, after run has
\* returned and after connect or run has raised, Sensor::close has been
\* called: the thread's last step is that call, and from then on, in
\* particular when the main thread's join has returned, the connection is
\* not established and no socket of it is left open.
C36_WorkerAlwaysCloses ==
    /\ [](WorkerDone => closedOnce /\ fd_[tx] < 0 /\ osOpen = {})
    /\ [](spc \in {"joined", "exit"} => closedOnce /\ fd_[tx] < 0 /\ osOpen = {})
    /\ [][(~WorkerDone /\ WorkerDone') =>
             /\ loopRes.op \in {"run", "catch"}
             /\ call'.op = "close" /\ call'.status = "returned"
             /\ closedOnce']_vars
    /\ [][(loopRes.status = "raised" /\ loopRes'.op = "close") => FALSE]_vars

\* the thread was connected when run raised; its catch block closed the
\* connection and the main thread has joined it
C36_Witness ==
    /\ spc = "joined"
    /\ stops = {"worker"}
    /\ life[tx] = "closed"
    /\ fd_[tx] < 0

\* C35: when connect or run raises on the Sensor's thread, the thread's next
\* step clears the running flag, it then calls Sensor::close, and the main
\* thread sees the cleared flag, joins the thread and leaves, also when no
\* run duration is set and no signal arrives.
C35_WorkerFailureStopsProgram ==
    /\ (loopRes.status = "raised") ~> (spc = "exit")
    /\ []((spc \in {"joined", "exit"} /\ "worker" \in stops) =>
             ~running /\ WorkerDone /\ closedOnce)
    /\ [][(loopRes.status = "raised" /\ loopRes' # loopRes) =>
             /\ loopRes.op \in {"connect", "run"}
             /\ loopRes'.op = "catch"
             /\ ~running' /\ "worker" \in stops']_vars
    /\ []("worker" \in stops =>
             loopRes.status \in {"raised", "caught"} \/ WorkerDone)

\* no run duration was set and no signal arrived: the failure of the
\* Sensor's thread alone has ended the program
C35_Witness ==
    /\ spc = "exit"
    /\ runDuration <= 0
    /\ stops = {"worker"}
    /\ closedOnce /\ WorkerDone

----------------------------------------------------------------------------
(* Claims about run: failures and late ticks *)

RunRaised == lpc = "idle" /\ loopRes.op = "run" /\ loopRes.status = "raised"

\* C33: run does not catch: the first runOnce that fails, in the data source
\* or in the connection, ends run with that same error; no check of the flag,
\* no further runOnce and no sleep follow the failed tick, and the ticks
\* before it were completed, each with its send and its sleep.
C33_RunPropagatesFirstFailure ==
    /\ [][(inRun /\ InTick /\ lpc' = "idle") =>
             /\ RunRaised'
             /\ \/ lpc = "read" /\ loopRes'.what = "datasource"
                \/ /\ lpc \in {"call_send", "sending"}
                   /\ call'.status = "raised" /\ loopRes'.what = call'.what
             /\ rOnce' = rOnce /\ rChecks' = rChecks
             /\ rSleeps' = rSleeps /\ rSent' = rSent]_vars
    /\ [][(inRun /\ call' # call /\ call'.status = "raised") =>
             RunRaised' /\ loopRes'.what = call'.what]_vars
    /\ [](RunRaised =>
             /\ rOnce >= 1 /\ rChecks = rOnce
             /\ rSleeps = rOnce - 1 /\ rSent = rOnce - 1
             /\ rSlept = (rOnce - 1) * intervalSeconds_
             /\ ~inRun)
    /\ [][(RunRaised /\ lpc' = "idle" /\ loopRes' = loopRes) =>
             runVars' = runVars /\ steps' = steps]_vars

\* the first tick of a run was sent and slept; the sendString of the second
\* raised and ended the run
C33_Witness ==
    /\ RunRaised /\ loopRes.what # "datasource"
    /\ rOnce = 2 /\ rSent = 1 /\ rSleeps = 1 /\ rSends = 2

\* C34: however the clearing of the flag by another thread interleaves with
\* run, at most one runOnce starts after the flag has been cleared and at
\* most one sleep ends after it: a check that finds the flag cleared returns
\* without a further runOnce, and after a sleep that ended with the flag
\* cleared nothing but that check is left.
C34_AtMostOneLateTick ==
    /\ [](lateOnce <= 1 /\ lateSleeps <= 1)
    /\ []((inRun /\ lateSleeps = 1) => lpc = "run_check" /\ ~running)
    /\ []((inRun /\ lateOnce = 1) => lpc # "read" /\ ~running)
    /\ [][(~running /\ lpc = "run_check" /\ lpc' # lpc) =>
             /\ RunReturned'
             /\ rOnce' = rOnce /\ rSleeps' = rSleeps
             /\ lateOnce' = lateOnce /\ lateSleeps' = lateSleeps]_vars

\* the flag was cleared between the check and the second runOnce: that
\* runOnce and its sleep still took place, then run returned
C34_Witness ==
    /\ RunReturned
    /\ lateOnce = 1 /\ lateSleeps = 1
    /\ rOnce = 2 /\ rSent = 2

----------------------------------------------------------------------------
(* CameraSpec: a Sensor whose data source is a HardwareDataSource *)

\* MockCamera::generateTestFrames: 10 frames of 640 x 480, CV_8UC3, frame i
\* filled with Scalar(i * 20, i * 10, i * 5)
NumFrames == 10
FrameCols == 640
FrameRows == 480
FrameChannels == 3

\* saturate_cast<uchar>
Sat8(x) == IF x > 255 THEN 255 ELSE IF x < 0 THEN 0 ELSE x

MockFrame(i) == Frame(FrameCols, FrameRows, FrameChannels, 1000 * Sat8(i * 20))

\* a frame as a capture device delivers it
DeviceFrame == Frame(1280, 720, 3, 117500)

\* the number of readAll calls the model follows
MaxReads == 11

\* cv::Mat::empty()
frameEmpty(f) == f.cols * f.rows = 0

\* MockCamera::read: the next stored frame, none when not opened or when
\* all frames have been handed out
MockRead ==
    IF ~opened_ \/ index_ >= NumFrames
    THEN {[ret |-> FALSE, frame |-> EmptyFrame, index |-> index_]}
    ELSE {[ret |-> TRUE, frame |-> MockFrame(index_), index |-> index_ + 1]}

\* OpenCvCamera::read (cv::VideoCapture::read): fails, delivers an empty
\* frame, or delivers a frame
DeviceRead ==
    {[ret |-> FALSE, frame |-> EmptyFrame, index |-> index_],
     [ret |-> TRUE, frame |-> EmptyFrame, index |-> index_],
     [ret |-> TRUE, frame |-> DeviceFrame, index |-> index_]}

\* HardwareDataSource::grabFrame: the outcomes [ok, frame] with the camera's
\* index_ afterwards
grabFrame ==
    IF camera_ = "null" \/ ~opened_
    THEN {[ok |-> FALSE, frame |-> EmptyFrame, index |-> index_]}
    ELSE {IF r.ret /\ ~frameEmpty(r.frame)
          THEN [ok |-> TRUE, frame |-> r.frame, index |-> r.index]
          ELSE [ok |-> FALSE, frame |-> EmptyFrame, index |-> r.index] :
            r \in (IF camera_ = "mock" THEN MockRead ELSE DeviceRead)}

\* HardwareDataSource::readAll on the outcome g of its grabFrame: the
\* ReadingSet, in thousandths
readAll(g) ==
    IF g.ok
    THEN [n \in {FrameWidth, FrameHeight, Channels, Brightness, FrameStatus} |->
            CASE n = FrameWidth -> 1000 * g.frame.cols
              [] n = FrameHeight -> 1000 * g.frame.rows
              [] n = Channels -> 1000 * g.frame.channels
              [] n = Brightness -> g.frame.mean
              [] OTHER -> 1000]
    ELSE [n \in {FrameWidth, FrameStatus} |-> 0]

CamUntouched ==
    UNCHANGED <<factoryVars, alive, sockVars, callVars, sendVars, loopVars, reopened,
                dgrams, done, nCalls, mainVars>>

\* std::make_shared<MockCamera>() / std::make_shared<OpenCvCamera>()
NewCamera ==
    /\ camera_ = "null"
    /\ hwCtor = "none"
    /\ camera_' \in {"mock", "device"}
    /\ UNCHANGED <<opened_, index_, hwCtor, released, hwReads, grabbed>>
    /\ CamUntouched

\* camera->open(0) succeeds
CamOpen ==
    /\ camera_ # "null"
    /\ ~opened_
    /\ opened_' = TRUE
    /\ UNCHANGED <<camera_, index_, hwCtor, released, hwReads, grabbed>>
    /\ CamUntouched

\* camera->release()
CamRelease ==
    /\ camera_ # "null"
    /\ opened_
    /\ opened_' = FALSE
    /\ released' = (released \/ hwCtor # "none")
    /\ UNCHANGED <<camera_, index_, hwCtor, hwReads, grabbed>>
    /\ CamUntouched

\* a constructor that does not touch the camera
HwConstructNoGrab ==
    /\ hwCtor = "none"
    /\ hwCtor' = (IF camera_ # "null" /\ opened_ THEN "opened" ELSE "unopened")
    /\ grabbed' = NoGrab
    /\ UNCHANGED <<camera_, opened_, index_, released, hwReads>>
    /\ CamUntouched

\* HardwareDataSource::HardwareDataSource(camera): logCameraInfo grabs a frame
HwConstruct ==
    /\ hwCtor = "none"
    /\ \E g \in grabFrame :
          /\ index_' = g.index
          /\ grabbed' = [ok |-> g.ok, frame |-> g.frame]
    /\ hwCtor' = (IF camera_ # "null" /\ opened_ THEN "opened" ELSE "unopened")
    /\ UNCHANGED <<camera_, opened_, released, hwReads>>
    /\ CamUntouched

\* a readAll that raises when it has no frame
HwReadAllThrows ==
    /\ lpc = "read"
    /\ hwCtor # "none"
    /\ hwReads < MaxReads
    /\ \E g \in grabFrame :
          /\ index_' = g.index
          /\ grabbed' = [ok |-> g.ok, frame |-> g.frame]
          /\ IF g.ok
             THEN /\ values' = readAll(g)
                  /\ lpc' = "build"
                  /\ UNCHANGED <<inRun, loopRes, payload>>
             ELSE Unwind("datasource")
    /\ hwReads' = hwReads + 1
    /\ steps' = Append(steps, "readAll")
    /\ lateOnce' = IF inRun /\ ~running THEN lateOnce + 1 ELSE lateOnce
    /\ UNCHANGED <<factoryVars, reopened, dgrams, done, nCalls, mainVars, alive, sockVars,
                   callVars, sendVars, cfgVars, running,
                   rChecks, rOnce, rSleeps, rSlept, rSends, rSent, firstSaw,
                   lateSleeps, closedOnce, camera_, opened_, hwCtor, released>>

\* runOnce 1) datasource_.readAll() on a HardwareDataSource
HwReadAll ==
    /\ lpc = "read"
    /\ hwCtor # "none"
    /\ hwReads < MaxReads
    /\ \E g \in grabFrame :
          /\ index_' = g.index
          /\ grabbed' = [ok |-> g.ok, frame |-> g.frame]
          /\ values' = readAll(g)
    /\ lpc' = "build"
    /\ hwReads' = hwReads + 1
    /\ steps' = Append(steps, "readAll")
    /\ lateOnce' = IF inRun /\ ~running THEN lateOnce + 1 ELSE lateOnce
    /\ UNCHANGED <<factoryVars, reopened, dgrams, done, nCalls, mainVars, alive, sockVars,
                   callVars, sendVars, cfgVars, running, inRun, loopRes, payload,
                   rChecks, rOnce, rSleeps, rSlept, rSends, rSent, firstSaw,
                   lateSleeps, closedOnce, camera_, opened_, hwCtor, released>>

\* a constructed Sensor; its camera and its data source are still to be made
CameraInit ==
    /\ FactoryIdle
    /\ SockInit
    /\ host_ = [o \in Objs |-> <<"h">>]
    /\ LoopIdle
    /\ MainUnused

\* sensor.connect(), once, before the first runOnce
CamConnect == loopRes = NoLoopRes /\ LConnect

CameraNext ==
    \/ NewCamera \/ CamOpen \/ CamRelease \/ HwConstruct
    \/ CamConnect \/ LRunOnce
    \/ HwReadAll \/ Build \/ CallSend \/ LSend

CameraSpec == CameraInit /\ [][CameraNext]_vars

----------------------------------------------------------------------------
(* Claims about the HardwareDataSource *)

\* a runOnce has returned normally
OnceReturned == lpc = "idle" /\ loopRes = LoopResult("runOnce", "returned", "none")

MockSteady == camera_ = "mock" /\ hwCtor = "opened" /\ ~released

\* C38: a HardwareDataSource constructed over an opened MockCamera: the
\* constructor takes frame 0; the k-th readAll, k = 1..9, returns frame_status
\* 1, frame_width 640, frame_height 480, channels 3 and brightness 20 * k;
\* the 10th and every later readAll returns frame_status 0, the frames being
\* used up and never replenished.
C38_MockFramesInOrder ==
    /\ [](MockSteady =>
             /\ index_ = (IF hwReads + 1 < 10 THEN hwReads + 1 ELSE 10)
             /\ (hwReads = 0 => grabbed = [ok |-> TRUE, frame |-> Frame(640, 480, 3, 0)])
             /\ ((hwReads \in 1..9 /\ lpc = "build") =>
                    values =
                        [n \in {FrameWidth, FrameHeight, Channels, Brightness, FrameStatus} |->
                            CASE n = FrameWidth -> 640000
                              [] n = FrameHeight -> 480000
                              [] n = Channels -> 3000
                              [] n = Brightness -> 20000 * hwReads
                              [] OTHER -> 1000])
             /\ ((hwReads >= 10 /\ lpc = "build") =>
                    values[FrameStatus] = 0 /\ ~grabbed.ok))
    /\ [][(MockSteady /\ index_ = 10) => index_' = 10]_vars

\* the 11th readAll on the MockCamera has returned
C38_Witness ==
    /\ MockSteady
    /\ hwReads = 11
    /\ lpc = "build"
    /\ values[FrameStatus] = 0

============================================================================
